---- MODULE Spec2Model ----
(***************************************************************************)
(* A state-machine model of the Zotero Spotlight palette:                  *)
(*   SearchService   (index lifecycle, search, recordOpen)                 *)
(*   buildIndex      (two-pass index builder with parent suppression)      *)
(*   query parser    (tokenize, type:/tag:/year: filters)                  *)
(*   fuzzyScore      (subsequence matcher)                                 *)
(*   CommandRegistry (search, run)                                         *)
(*   PaletteUI       (updateResults generation token, recent view)         *)
(* Strings are sequences of one-character strings, so that parsing,        *)
(* normalisation and matching are computed character by character.         *)
(***************************************************************************)
EXTENDS Integers, Sequences, FiniteSets, TLC

(***************************************************************************)
(* Generic sequence helpers                                                *)
(***************************************************************************)
Min2(a, b) == IF a < b THEN a ELSE b
Max2(a, b) == IF a > b THEN a ELSE b

Range(s) == { s[i] : i \in DOMAIN s }

\* JavaScript Array.prototype.slice(0, n) / String.prototype.slice(0, n)
Take(s, n) == SubSeq(s, 1, Min2(n, Len(s)))

\* JavaScript slice(n) (drop the first n elements)
Drop(s, n) == SubSeq(s, n + 1, Len(s))

\* JavaScript Array.prototype.indexOf, 0-based, -1 when absent
IndexOfFrom(s, x, i) ==
  LET found == { k \in i .. Len(s) : s[k] = x }
  IN  IF found = {} THEN -1
      ELSE (CHOOSE k \in found : \A j \in found : k <= j) - 1

IndexOf(s, x) == IndexOfFrom(s, x, 1)

\* JavaScript Array.prototype.join(" ") over an array of strings
RECURSIVE JoinSp(_)
JoinSp(ss) ==
  IF ss = << >> THEN << >>
  ELSE IF Len(ss) = 1 THEN ss[1]
  ELSE ss[1] \o << " " >> \o JoinSp(Tail(ss))

NoDup(s) == \A i, j \in DOMAIN s : i # j => s[i] # s[j]

(***************************************************************************)
(* Characters                                                              *)
(***************************************************************************)
UpperChars == << "A", "B", "C", "D", "E", "F", "G", "H", "I", "J", "K", "L", "M",
                 "N", "O", "P", "Q", "R", "S", "T", "U", "V", "W", "X", "Y", "Z" >>
LowerChars == << "a", "b", "c", "d", "e", "f", "g", "h", "i", "j", "k", "l", "m",
                 "n", "o", "p", "q", "r", "s", "t", "u", "v", "w", "x", "y", "z" >>
DigitChars == << "0", "1", "2", "3", "4", "5", "6", "7", "8", "9" >>

\* String.prototype.toLowerCase on one character
LowerChar(c) ==
  IF c \in Range(UpperChars)
  THEN LowerChars[CHOOSE i \in DOMAIN UpperChars : UpperChars[i] = c]
  ELSE c

ToLowerCase(s) == [ i \in DOMAIN s |-> LowerChar(s[i]) ]

\* the regular-expression class \s (space and tab are the ones the model types)
IsSpace(c) == c \in { " ", "\t" }

IsDigit(c) == c \in Range(DigitChars)

DigitVal(c) == (CHOOSE i \in DOMAIN DigitChars : DigitChars[i] = c) - 1

\* Number("dddd") for a string of digits
RECURSIVE NumberOf(_)
NumberOf(s) ==
  IF s = << >> THEN 0
  ELSE NumberOf(SubSeq(s, 1, Len(s) - 1)) * 10 + DigitVal(s[Len(s)])

\* String(n) for a non-negative integer
RECURSIVE StringOfNat(_)
StringOfNat(n) ==
  IF n < 10 THEN << DigitChars[n + 1] >>
  ELSE StringOfNat(n \div 10) \o << DigitChars[(n % 10) + 1] >>

\* String.prototype.trim / trimStart
TrimStart(s) ==
  LET solid == { i \in DOMAIN s : ~IsSpace(s[i]) }
  IN  IF solid = {} THEN << >>
      ELSE SubSeq(s, CHOOSE i \in solid : \A j \in solid : i <= j, Len(s))

TrimEnd(s) ==
  LET solid == { i \in DOMAIN s : ~IsSpace(s[i]) }
  IN  IF solid = {} THEN << >>
      ELSE SubSeq(s, 1, CHOOSE i \in solid : \A j \in solid : i >= j)

Trim(s) == TrimEnd(TrimStart(s))

\* String.prototype.startsWith
StartsWith(s, p) == Len(s) >= Len(p) /\ SubSeq(s, 1, Len(p)) = p

\* String.prototype.endsWith
EndsWith(s, p) == Len(s) >= Len(p) /\ SubSeq(s, Len(s) - Len(p) + 1, Len(s)) = p

\* String.prototype.includes
Includes(t, q) ==
  \E i \in 0 .. (Len(t) - Len(q)) : SubSeq(t, i + 1, i + Len(q)) = q

\* value.replace(/\s+/g, " "): every run of whitespace becomes one space
CollapseSpaces(s) ==
  LET positions == [ i \in 1 .. Len(s) |-> i ]
      kept == SelectSeq(positions,
                        LAMBDA i : ~IsSpace(s[i]) \/ i = 1 \/ ~IsSpace(s[i - 1]))
  IN  [ k \in 1 .. Len(kept) |-> IF IsSpace(s[kept[k]]) THEN " " ELSE s[kept[k]] ]

\* normalize(value) = value.toLowerCase().replace(/\s+/g, " ").trim()
normalize(value) == Trim(CollapseSpaces(ToLowerCase(value)))

(***************************************************************************)
(* Sentinels for JavaScript null / undefined in numeric positions          *)
(***************************************************************************)
\* IndexedEntry.year === null
NullYear == -1
\* ParsedQuery.filters.yearMin / yearMax === undefined
Undefined == -1

(***************************************************************************)
(* Query parser (search.ts: tokenize, unquoteToken, parseTypeFilter,       *)
(* parseYearFilter, parseStructuredQuery)                                  *)
(***************************************************************************)
Quote == "\""

\* 1-based position of the next double quote at or after i, 0 when there is none
RECURSIVE NextQuote(_, _)
NextQuote(s, i) ==
  IF i > Len(s) THEN 0
  ELSE IF s[i] = Quote THEN i
  ELSE NextQuote(s, i + 1)

\* One match of /(?:[^\s"]+|"[^"]*")+/ started at position i: the position just
\* after the match (i itself when the expression does not match at i).
RECURSIVE TokenEnd(_, _)
TokenEnd(s, i) ==
  IF i > Len(s) THEN i
  ELSE IF s[i] = Quote
       THEN LET j == NextQuote(s, i + 1)
            IN  IF j = 0 THEN i ELSE TokenEnd(s, j + 1)
  ELSE IF IsSpace(s[i]) THEN i
  ELSE TokenEnd(s, i + 1)

\* query.match(/(?:[^\s"]+|"[^"]*")+/g)
RECURSIVE MatchTokens(_, _)
MatchTokens(s, i) ==
  IF i > Len(s) THEN << >>
  ELSE LET e == TokenEnd(s, i)
       IN  IF e = i THEN MatchTokens(s, i + 1)
           ELSE << SubSeq(s, i, e - 1) >> \o MatchTokens(s, e)

NonEmptyStr(s) == s # << >>

tokenize(query) ==
  LET matches == MatchTokens(query, 1)
  IN  SelectSeq([ i \in DOMAIN matches |-> Trim(matches[i]) ], NonEmptyStr)

unquoteToken(token) ==
  LET trimmed == Trim(token)
  IN  IF StartsWith(trimmed, << Quote >>) /\ EndsWith(trimmed, << Quote >>)
         /\ Len(trimmed) >= 2
      THEN SubSeq(trimmed, 2, Len(trimmed) - 1)
      ELSE trimmed

\* value.split("|")
RECURSIVE SplitBar(_, _)
SplitBar(s, acc) ==
  IF s = << >> THEN << acc >>
  ELSE IF Head(s) = "|" THEN << acc >> \o SplitBar(Tail(s), << >>)
  ELSE SplitBar(Tail(s), Append(acc, Head(s)))

Str_pdf == << "p", "d", "f" >>
Str_note == << "n", "o", "t", "e" >>
Str_item == << "i", "t", "e", "m" >>

IsTypeName(entry) == entry \in { Str_pdf, Str_note, Str_item }

TypeOfName(entry) ==
  IF entry = Str_pdf THEN "pdf" ELSE IF entry = Str_note THEN "note" ELSE "item"

\* a variant of parseTypeFilter below that gives up on the whole value when
\* one of its parts is not a result type
parseTypeFilter_AllOrNothing(rawValue) ==
  LET value == unquoteToken(rawValue)
      parts == SplitBar(value, << >>)
      values == SelectSeq([ i \in DOMAIN parts |-> ToLowerCase(Trim(parts[i])) ],
                          NonEmptyStr)
  IN  IF value = << >> \/ \E i \in DOMAIN values : ~IsTypeName(values[i])
      THEN << >>
      ELSE [ i \in DOMAIN values |-> TypeOfName(values[i]) ]

\* parseTypeFilter: the recognised result types named by a type: value, in order
parseTypeFilter(rawValue) ==
  LET value == unquoteToken(rawValue)
      parts == SplitBar(value, << >>)
      values == SelectSeq([ i \in DOMAIN parts |-> ToLowerCase(Trim(parts[i])) ],
                          NonEmptyStr)
      known == SelectSeq(values, IsTypeName)
  IN  IF value = << >> THEN << >>
      ELSE [ i \in DOMAIN known |-> TypeOfName(known[i]) ]

AllDigits(s) == \A i \in DOMAIN s : IsDigit(s[i])

\* parseYearFilter: [ok |-> FALSE] is null; min / max are Undefined when absent
YearNone == [ ok |-> FALSE, min |-> Undefined, max |-> Undefined ]

\* a variant of parseYearFilter below in which > and < without = are strict
parseYearFilter_Strict(rawValue) ==
  LET value == Trim(unquoteToken(rawValue))
      n == Len(value)
  IN  IF value = << >> THEN YearNone
      ELSE IF n = 9 /\ value[5] = "-" /\ AllDigits(SubSeq(value, 1, 4))
              /\ AllDigits(SubSeq(value, 6, 9))
      THEN LET start == NumberOf(SubSeq(value, 1, 4))
               end == NumberOf(SubSeq(value, 6, 9))
           IN  [ ok |-> TRUE, min |-> Min2(start, end), max |-> Max2(start, end) ]
      ELSE IF n = 5 /\ value[1] = ">" /\ AllDigits(SubSeq(value, 2, 5))
      THEN [ ok |-> TRUE, min |-> NumberOf(SubSeq(value, 2, 5)) + 1, max |-> Undefined ]
      ELSE IF n = 6 /\ value[1] = ">" /\ value[2] = "=" /\ AllDigits(SubSeq(value, 3, 6))
      THEN [ ok |-> TRUE, min |-> NumberOf(SubSeq(value, 3, 6)), max |-> Undefined ]
      ELSE IF n = 5 /\ value[1] = "<" /\ AllDigits(SubSeq(value, 2, 5))
      THEN [ ok |-> TRUE, min |-> Undefined, max |-> NumberOf(SubSeq(value, 2, 5)) - 1 ]
      ELSE IF n = 6 /\ value[1] = "<" /\ value[2] = "=" /\ AllDigits(SubSeq(value, 3, 6))
      THEN [ ok |-> TRUE, min |-> Undefined, max |-> NumberOf(SubSeq(value, 3, 6)) ]
      ELSE IF n = 4 /\ AllDigits(value)
      THEN [ ok |-> TRUE, min |-> NumberOf(value), max |-> NumberOf(value) ]
      ELSE YearNone

parseYearFilter(rawValue) ==
  LET value == Trim(unquoteToken(rawValue))
      n == Len(value)
  IN  IF value = << >> THEN YearNone
      ELSE IF n = 9 /\ value[5] = "-" /\ AllDigits(SubSeq(value, 1, 4))
              /\ AllDigits(SubSeq(value, 6, 9))
      THEN LET start == NumberOf(SubSeq(value, 1, 4))
               end == NumberOf(SubSeq(value, 6, 9))
           IN  [ ok |-> TRUE, min |-> Min2(start, end), max |-> Max2(start, end) ]
      ELSE IF n = 5 /\ value[1] = ">" /\ AllDigits(SubSeq(value, 2, 5))
      THEN [ ok |-> TRUE, min |-> NumberOf(SubSeq(value, 2, 5)), max |-> Undefined ]
      ELSE IF n = 6 /\ value[1] = ">" /\ value[2] = "=" /\ AllDigits(SubSeq(value, 3, 6))
      THEN [ ok |-> TRUE, min |-> NumberOf(SubSeq(value, 3, 6)), max |-> Undefined ]
      ELSE IF n = 5 /\ value[1] = "<" /\ AllDigits(SubSeq(value, 2, 5))
      THEN [ ok |-> TRUE, min |-> Undefined, max |-> NumberOf(SubSeq(value, 2, 5)) ]
      ELSE IF n = 6 /\ value[1] = "<" /\ value[2] = "=" /\ AllDigits(SubSeq(value, 3, 6))
      THEN [ ok |-> TRUE, min |-> Undefined, max |-> NumberOf(SubSeq(value, 3, 6)) ]
      ELSE IF n = 4 /\ AllDigits(value)
      THEN [ ok |-> TRUE, min |-> NumberOf(value), max |-> NumberOf(value) ]
      ELSE YearNone

Str_typeColon == << "t", "y", "p", "e", ":" >>
Str_tagColon == << "t", "a", "g", ":" >>
Str_yearColon == << "y", "e", "a", "r", ":" >>

EmptyFilters ==
  [ types |-> {}, tags |-> << >>, yearMin |-> Undefined, yearMax |-> Undefined ]

\* a variant of IntersectMin below in which the last lower bound given wins
IntersectMin_Replace(yearMin, rangeMin) ==
  IF rangeMin # Undefined THEN rangeMin ELSE yearMin

\* the new yearMin and yearMax after a year: token (search.ts 456-467)
IntersectMin(yearMin, rangeMin) ==
  IF rangeMin # Undefined
  THEN (IF yearMin # Undefined THEN Max2(yearMin, rangeMin) ELSE rangeMin)
  ELSE yearMin

IntersectMax(yearMax, rangeMax) ==
  IF rangeMax # Undefined
  THEN (IF yearMax # Undefined THEN Min2(yearMax, rangeMax) ELSE rangeMax)
  ELSE yearMax

\* the body of the for-loop of parseStructuredQuery for one token;
\* acc = [textTokens, filters]
ParseToken(acc, token) ==
  LET lower == ToLowerCase(token)
      f == acc.filters
  IN  IF StartsWith(lower, Str_typeColon)
      THEN [ acc EXCEPT !.filters.types = @ \cup Range(parseTypeFilter(Drop(token, 5))) ]
      ELSE IF StartsWith(lower, Str_tagColon)
      THEN LET tagValue == normalize(unquoteToken(Drop(token, 4)))
           IN  IF tagValue # << >>
               THEN [ acc EXCEPT !.filters.tags = Append(@, tagValue) ]
               ELSE acc
      ELSE IF StartsWith(lower, Str_yearColon)
      THEN LET yearRange == parseYearFilter(Drop(token, 5))
           IN  IF yearRange.ok
               THEN [ acc EXCEPT
                        !.filters.yearMin = IntersectMin(f.yearMin, yearRange.min),
                        !.filters.yearMax = IntersectMax(f.yearMax, yearRange.max) ]
               ELSE acc
      ELSE [ acc EXCEPT !.textTokens = Append(@, token) ]

RECURSIVE ParseTokens(_, _)
ParseTokens(acc, tokens) ==
  IF tokens = << >> THEN acc
  ELSE ParseTokens(ParseToken(acc, Head(tokens)), Tail(tokens))

parseStructuredQuery(rawQuery) ==
  LET acc == ParseTokens([ textTokens |-> << >>, filters |-> EmptyFilters ],
                         tokenize(rawQuery))
  IN  [ textQuery |-> Trim(JoinSp(acc.textTokens)), filters |-> acc.filters ]

(***************************************************************************)
(* matchesFilters (search.ts 551-577)                                      *)
(***************************************************************************)
\* the tag loop (lines 558-565), with a variant that accepts an entry carrying
\* any one of the filter's tags
TagsMatch_Any(entryTags, filterTags) ==
  filterTags = << >> \/ \E i \in DOMAIN filterTags : filterTags[i] \in Range(entryTags)

TagsMatch(entryTags, filterTags) ==
  \A i \in DOMAIN filterTags : filterTags[i] \in Range(entryTags)

\* the two year tests (lines 566-575), with a variant whose bounds are exclusive
YearInBounds_Exclusive(year, yearMin, yearMax) ==
  /\ yearMin # Undefined => (year # NullYear /\ year > yearMin)
  /\ yearMax # Undefined => (year # NullYear /\ year < yearMax)

YearInBounds(year, yearMin, yearMax) ==
  /\ ~(yearMin # Undefined /\ (year = NullYear \/ year < yearMin))
  /\ ~(yearMax # Undefined /\ (year = NullYear \/ year > yearMax))

matchesFilters(entry, filters) ==
  IF filters.types # {} /\ entry.resultType \notin filters.types THEN FALSE
  ELSE IF ~TagsMatch(entry.tags, filters.tags) THEN FALSE
  ELSE IF ~YearInBounds(entry.year, filters.yearMin, filters.yearMax) THEN FALSE
  ELSE TRUE

(***************************************************************************)
(* fuzzyScore (search.ts 583-624)                                          *)
(***************************************************************************)
BoundaryChars == { " ", "/", "-", "_" }

\* the inner while loop: the first 0-based position >= tIndex of char in t,
\* Len(t) when the scan runs off the end
ScanFor(t, char, tIndex) ==
  LET found == { k \in tIndex .. Len(t) - 1 : t[k + 1] = char }
  IN  IF found = {} THEN Len(t)
      ELSE CHOOSE k \in found : \A j \in found : k <= j

\* the for loop over the query characters; -1 as soon as a character is not found
RECURSIVE FuzzyWalk(_, _, _, _, _, _, _)
FuzzyWalk(q, t, i, tIndex, lastMatch, consecutive, score) ==
  IF i >= Len(q) THEN score
  ELSE LET pos == ScanFor(t, q[i + 1], tIndex)
       IN  IF pos >= Len(t) THEN -1
           ELSE LET run == IF pos = lastMatch + 1 THEN consecutive + 1 ELSE 0
                    s1 == score + (IF pos = lastMatch + 1 THEN 5 + run ELSE 1)
                    s2 == s1 + (IF pos = 0 \/ t[pos] \in BoundaryChars THEN 3 ELSE 0)
                IN  FuzzyWalk(q, t, i + 1, pos + 1, pos, run, s2)

\* variants of fuzzyScore below: one gives 0 where the walk fails, one leaves
\* out the substring bonus
fuzzyScore_ZeroOnMiss(query, text) ==
  LET q == normalize(query)
      t == normalize(text)
      walked == FuzzyWalk(q, t, 0, 0, -1, 0, 0)
  IN  IF q = << >> \/ t = << >> THEN -1
      ELSE IF walked = -1 THEN 0
      ELSE walked + (IF Includes(t, q) THEN 8 ELSE 0)
                  + Max2(0, 10 - (Len(t) - Len(q)))

fuzzyScore_NoSubstringBonus(query, text) ==
  LET q == normalize(query)
      t == normalize(text)
      walked == FuzzyWalk(q, t, 0, 0, -1, 0, 0)
  IN  IF q = << >> \/ t = << >> THEN -1
      ELSE IF walked = -1 THEN -1
      ELSE walked + Max2(0, 10 - (Len(t) - Len(q)))

fuzzyScore(query, text) ==
  LET q == normalize(query)
      t == normalize(text)
      walked == FuzzyWalk(q, t, 0, 0, -1, 0, 0)
  IN  IF q = << >> \/ t = << >> THEN -1
      ELSE IF walked = -1 THEN -1
      ELSE walked + (IF Includes(t, q) THEN 8 ELSE 0)
                  + Max2(0, 10 - (Len(t) - Len(q)))

(***************************************************************************)
(* Host records (Zotero.Item as the index builder sees it)                 *)
(*   id, kind, parentID (0: none), libraryID                               *)
(*   linkMode: "file" | "web" | "embedded" | "other"  (attachments)        *)
(*   isAnnotation, contentType ("" when absent), isPDF                     *)
(*   title, filename, firstCreator, abstractNote, note (getNote()): strings *)
(*   tags: sequence of raw tag labels, date: the unformatted date field    *)
(*   displayTitle (getDisplayTitle()), creators (getCreators()): sequence  *)
(*   of [firstName, lastName]                                              *)
(*   unloaded: the fields whose load fails with an unloaded-data error     *)
(*   throwsAt: "none" | "classify" (isAttachment() throws)                 *)
(*             | "derive" (its field getters throw a non-unloaded error)   *)
(***************************************************************************)
VARIABLES
  store,         \* Zotero.Items.getAll(libraryID): library -> sequence of records
  libVer,        \* ghost: number of changes committed to each library
  now,           \* Date.now()
  activeLibraryID, \* getSelectedLibraryID() of the active pane, 0 when none
  tabs,          \* Zotero_Tabs._tabs without the library tab: <<[type, itemID]>>;
                 \* an entry of type "window" is a reader in a window of its
                 \* own, which is in Zotero.Reader._readers and not a tab
  selectedTab,   \* itemID of the selected tab, 0 when the library tab is selected
  pane,          \* ZoteroPane as the command registry reads it:
                 \*   [present, canEdit, selectedItem (0: none), inCollection (ids)]
  win,           \* the palette's window: [windowType, hrefHasNote, hasReader]
  prefResultsLimit \* Number(getPref("resultsLimit"))

hostVars ==
  << store, libVer, now, activeLibraryID, tabs, selectedTab, pane, win,
     prefResultsLimit >>

VARIABLES
  index,         \* SearchService.index
  indexReady,    \* SearchService.indexReady
  indexStale,    \* SearchService.indexStale
  lastIndexedAt, \* SearchService.lastIndexedAt
  indexVer,      \* ghost: the library versions the cached index was read from
  usageCounts,   \* SearchService.usageCounts: id -> count (0 when absent)
  recentItemIDs, \* SearchService.recentItemIDs
  builds,        \* ensureIndex calls suspended inside buildIndex
  warmed,        \* registerWindow has run: the service exists and was warmed
  openCalls,     \* ghost: id -> number of recordOpen(id) calls with a record id
  lastOpenCall,  \* ghost: the id of the most recent such call, 0 before the first
  openSteps      \* ghost: the number of recordOpen calls of this run

svcVars == << index, indexReady, indexStale, lastIndexedAt, indexVer, builds, warmed >>
openVars == << usageCounts, recentItemIDs, openCalls, lastOpenCall, openSteps >>

\* a direct call of one of the module-level functions of search.ts, as a unit
\* test would make it: [fn, args, result]; fn = "none" before the first call
VARIABLE lastCall

NoCall == [ fn |-> "none", args |-> << >>, result |-> 0 ]

\* the instances registerWindow creates for a second window: the fields of its
\* SearchService, CommandRegistry and PaletteUI that hold session state, its
\* warmIndex call while it is suspended in buildIndex (build; empty: none) and
\* the number of operations made through it (ghost)
VARIABLE peer

NoPeer ==
  [ registered |-> FALSE, index |-> << >>, indexReady |-> FALSE,
    indexStale |-> TRUE, lastIndexedAt |-> 0, usageCounts |-> << >>,
    recentItemIDs |-> << >>, cmdUsage |-> << >>, recentSearches |-> << >>,
    build |-> << >>, steps |-> 0 ]

\* the WindowManager (part_003 13-16) and the windows of the host as it sees
\* them: each window's load state (absent, loading, complete, closed), the
\* windows that carry a once-only "load" listener of the manager, the keys of
\* the palettes and keyListeners maps, whether windowListener is registered,
\* the number of change-notification observers registered by the services the
\* manager created, and whether start() and shutdown() have returned (ghost)
VARIABLE wm

MaxWindows == 3
Windows == 1 .. MaxWindows

NoManager ==
  [ window |-> [ w \in Windows |-> "absent" ], loadListeners |-> {},
    palettes |-> {}, keyListeners |-> {}, listening |-> FALSE,
    observers |-> 0, started |-> FALSE, down |-> FALSE ]

\* the notifier callback of the second window's service (search.ts 154-156)
NotifyPeer(p) == IF p.registered THEN [ p EXCEPT !.indexStale = TRUE ] ELSE p

NumLibs == 2
Libraries == 1 .. NumLibs

\* library.libraryType === "group" ? "group" : "user" (library 1 is the user library)
LibraryKind(libraryID) == IF libraryID = 1 THEN "user" ELSE "group"

Str_Untitled == << "U", "n", "t", "i", "t", "l", "e", "d" >>
Str_Note == << "N", "o", "t", "e" >>
Str_Attachment == << "A", "t", "t", "a", "c", "h", "m", "e", "n", "t" >>
Str_Ellipsis == << ".", ".", "." >>

AllItems(st) == UNION { Range(st[l]) : l \in DOMAIN st }

\* Zotero.Items.get(id): the record, or NoItem
NoItem == [ id |-> 0 ]

ItemsGet(st, id) ==
  IF \E it \in AllItems(st) : it.id = id
  THEN CHOOSE it \in AllItems(st) : it.id = id
  ELSE NoItem

\* getParentItem / getAttachmentParentItem (the top-level item of a parentless
\* attachment is the attachment itself, so the fallback yields null)
getParentItem(st, item) ==
  IF item.parentID = 0 THEN NoItem ELSE ItemsGet(st, item.parentID)

\* the fields the extractor loads through a method of the record
LoadedFields ==
  { "title", "displayTitle", "date", "creators", "tags", "abstractNote", "note" }

\* the error the host raises when this field of the record is loaded
NoError == [ name |-> "" ]

ErrorOf(item, field) ==
  IF field \in item.unloaded THEN [ name |-> "UnloadedDataException" ]
  ELSE IF item.throwsAt = "derive" THEN [ name |-> "Error" ]
  ELSE NoError

\* a variant of isUnloadedDataError below that recognises no error
isUnloadedDataError_Never(error) == FALSE

\* isUnloadedDataError (itemMetadata.ts 152-158, search.ts 423-429)
isUnloadedDataError(error) == error.name = "UnloadedDataException"

\* the catch blocks of the safeGet functions rethrow what is not an
\* unloaded-data error (itemMetadata.ts 105-110)
Rethrown(item, field) ==
  ErrorOf(item, field) # NoError /\ ~isUnloadedDataError(ErrorOf(item, field))

\* a field getter of this record throws an error that is not an unloaded-data error
GetterThrows(item) == item.id # 0 /\ \E field \in LoadedFields : Rethrown(item, field)

\* safeGetField, safeGetDisplayTitle, safeGetTags, safeGetCreators
\* (itemMetadata.ts 92-150) and safeGetNote (search.ts 411-421): the value, or
\* the empty value when the load failed
safeGetField(item, field) ==
  IF ErrorOf(item, field) # NoError THEN << >> ELSE item[field]

safeGetDisplayTitle(item) == safeGetField(item, "displayTitle")
safeGetTags(item) == safeGetField(item, "tags")
safeGetCreators(item) == safeGetField(item, "creators")
safeGetNote(item) == safeGetField(item, "note")

\* itemMetadata.ts
normalizeWhitespace(value) == Trim(CollapseSpaces(value))

getItemTitleSafe(item) ==
  IF safeGetField(item, "title") # << >> THEN safeGetField(item, "title")
  ELSE safeGetDisplayTitle(item)

\* getItemYearSafe (itemMetadata.ts 5-16): the first match of /\b\d{4}\b/ in
\* the date field, NullYear (undefined) when there is none
IsWordChar(c) ==
  c \in Range(UpperChars) \cup Range(LowerChars) \cup Range(DigitChars) \cup { "_" }

YearMatchAt(date, i) ==
  /\ i + 3 <= Len(date)
  /\ \A k \in i .. i + 3 : IsDigit(date[k])
  /\ (i = 1 \/ ~IsWordChar(date[i - 1]))
  /\ (i + 3 = Len(date) \/ ~IsWordChar(date[i + 4]))

getItemYearSafe(item) ==
  LET date == safeGetField(item, "date")
      starts == { i \in DOMAIN date : YearMatchAt(date, i) }
  IN  IF starts = {} THEN NullYear
      ELSE LET first == CHOOSE i \in starts : \A j \in starts : i <= j
           IN  NumberOf(SubSeq(date, first, first + 3))

getItemSubtitleSafe(item) ==
  LET creator == normalizeWhitespace(item.firstCreator)
      year == getItemYearSafe(item)
      yearStr == IF year # NullYear /\ year # 0 THEN StringOfNat(year) ELSE << >>
  IN  JoinSp(SelectSeq(<< creator, yearStr >>, NonEmptyStr))

\* creators.slice(0, 2).join(", ")
JoinComma(ss) ==
  IF ss = << >> THEN << >>
  ELSE IF Len(ss) = 1 THEN ss[1]
  ELSE ss[1] \o << ",", " " >> \o ss[2]

CreatorName(entry) ==
  normalizeWhitespace(normalizeWhitespace(entry.firstName) \o << " " >>
                      \o normalizeWhitespace(entry.lastName))

\* getItemAuthorsSafe (itemMetadata.ts 24-39)
getItemAuthorsSafe(item) ==
  IF normalizeWhitespace(item.firstCreator) # << >>
  THEN normalizeWhitespace(item.firstCreator)
  ELSE LET creators == safeGetCreators(item)
           names == SelectSeq([ i \in DOMAIN creators |-> CreatorName(creators[i]) ],
                              NonEmptyStr)
       IN  JoinComma(Take(names, 2))

\* getItemTagsSafe(item, max): normalised, first-seen-wins dedup, capped when max > 0
RECURSIVE TagsSafe(_, _, _)
TagsSafe(rawTags, tags, max) ==
  IF rawTags = << >> THEN tags
  ELSE LET normalizedLabel == normalize(Head(rawTags))
       IN  IF normalizedLabel = << >> \/ normalizedLabel \in Range(tags)
           THEN TagsSafe(Tail(rawTags), tags, max)
           ELSE IF max > 0 /\ Len(tags) + 1 >= max
                THEN Append(tags, normalizedLabel)
                ELSE TagsSafe(Tail(rawTags), Append(tags, normalizedLabel), max)

getItemTagsSafe(item, max) == TagsSafe(safeGetTags(item), << >>, max)

\* stripHTML (itemMetadata.ts 170-172): value.replace(/<[^>]+>/g, " ")
RECURSIVE stripHTML(_)
stripHTML(value) ==
  IF value = << >> THEN << >>
  ELSE LET close == IndexOfFrom(value, ">", 1)
       IN  IF Head(value) = "<" /\ close >= 2
           THEN << " " >> \o stripHTML(Drop(value, close + 1))
           ELSE << Head(value) >> \o stripHTML(Tail(value))

getItemAbstractSnippetSafe(item, maxLength) ==
  LET normalized == normalizeWhitespace(stripHTML(safeGetField(item, "abstractNote")))
  IN  IF Len(normalized) > maxLength
      THEN TrimEnd(Take(normalized, maxLength - 3)) \o Str_Ellipsis
      ELSE normalized

isPDFAttachment(item) == item.isPDF

\* search.ts 291-380
getItemTitle(item) ==
  IF getItemTitleSafe(item) # << >> THEN getItemTitleSafe(item) ELSE Str_Untitled

getAttachmentTitle(item) ==
  IF item.filename # << >> THEN item.filename
  ELSE IF getItemTitleSafe(item) # << >> THEN getItemTitleSafe(item)
  ELSE Str_Attachment

getNoteTitle(item) ==
  LET text == normalizeWhitespace(stripHTML(safeGetNote(item)))
  IN  IF text = << >> THEN Str_Note
      ELSE IF Len(text) > 80 THEN Take(text, 77) \o Str_Ellipsis
      ELSE text

\* isSearchableAttachment (search.ts 382-409)
isSearchableAttachment(item) ==
  IF item.kind # "attachment" THEN FALSE
  ELSE IF item.isAnnotation THEN FALSE
  ELSE IF item.linkMode = "embedded" THEN FALSE
  ELSE IF item.linkMode = "file" THEN TRUE
  ELSE IF item.linkMode = "web" THEN TRUE
  ELSE item.contentType # ""

SearchTextOf(title, subtitle, authors, tags, abstractSnippet) ==
  normalize(title \o << " " >> \o subtitle \o << " " >> \o authors \o << " " >>
            \o JoinSp(tags) \o << " " >> \o abstractSnippet)

MakeEntry(item, kind, resultType, title, subtitle, authors, tags, abstractSnippet, year) ==
  [ id |-> item.id, kind |-> kind, resultType |-> resultType, title |-> title,
    subtitle |-> subtitle, authors |-> authors, tags |-> tags,
    abstractSnippet |-> abstractSnippet, year |-> year,
    libraryID |-> item.libraryID, libraryKind |-> LibraryKind(item.libraryID),
    searchText |-> SearchTextOf(title, subtitle, authors, tags, abstractSnippet) ]

\* the entry pushed for a regular item (search.ts 213-233)
RegularEntry(st, item) ==
  MakeEntry(item, "item", "item", getItemTitle(item), getItemSubtitleSafe(item),
            getItemAuthorsSafe(item), getItemTagsSafe(item, 0),
            getItemAbstractSnippetSafe(item, 120), getItemYearSafe(item))

\* the entry pushed for a note (search.ts 235-256)
NoteEntry(st, item) ==
  LET parent == getParentItem(st, item)
      has == parent.id # 0
  IN  MakeEntry(item, "item", "note", getNoteTitle(item),
                IF has THEN getItemTitle(parent) ELSE Str_Note,
                IF has THEN getItemAuthorsSafe(parent) ELSE << >>,
                getItemTagsSafe(item, 0),
                IF has THEN getItemAbstractSnippetSafe(parent, 120) ELSE << >>,
                IF has THEN getItemYearSafe(parent) ELSE NullYear)

\* the entry pushed for a searchable attachment (search.ts 258-281)
AttachmentEntry(st, item) ==
  LET parent == getParentItem(st, item)
      has == parent.id # 0
      parentTags == IF has THEN getItemTagsSafe(parent, 0) ELSE << >>
  IN  MakeEntry(item, "attachment",
                IF isPDFAttachment(item) THEN "pdf" ELSE "item",
                getAttachmentTitle(item),
                IF has THEN getItemTitle(parent) ELSE << >>,
                IF has THEN getItemAuthorsSafe(parent) ELSE << >>,
                getItemTagsSafe(item, 0) \o parentTags,
                IF has THEN getItemAbstractSnippetSafe(parent, 120) ELSE << >>,
                IF has THEN getItemYearSafe(parent) ELSE NullYear)

\* deriving the entry of this record throws inside the try block: one of its own
\* getters throws, or a getter of the parent it reads its metadata from
DeriveThrows(st, item) ==
  \/ GetterThrows(item)
  \/ /\ item.kind \in { "note", "attachment" }
     /\ GetterThrows(getParentItem(st, item))

\* first pass over one library (search.ts 192-203): the parents of searchable
\* attachments; no try/catch here
FirstPassThrows(items) == \E i \in DOMAIN items : items[i].throwsAt = "classify"

FirstPass(items, parentsWithAttachment) ==
  parentsWithAttachment \cup
    { items[i].parentID : i \in { j \in DOMAIN items :
          /\ items[j].kind = "attachment"
          /\ isSearchableAttachment(items[j])
          /\ items[j].parentID # 0 } }

\* the body of the second loop for one item (search.ts 205-285): the entries
\* it appends
EntriesOfItem(st, item, parentsWithAttachment) ==
  IF item.kind = "regular"
  THEN IF item.id \in parentsWithAttachment THEN << >>
       ELSE IF DeriveThrows(st, item) THEN << >>
       ELSE << RegularEntry(st, item) >>
  ELSE IF item.kind = "note"
  THEN IF DeriveThrows(st, item) THEN << >> ELSE << NoteEntry(st, item) >>
  ELSE IF item.kind = "attachment" /\ isSearchableAttachment(item)
  THEN IF DeriveThrows(st, item) THEN << >> ELSE << AttachmentEntry(st, item) >>
  ELSE << >>

RECURSIVE SecondPass(_, _, _)
SecondPass(st, items, parentsWithAttachment) ==
  IF items = << >> THEN << >>
  ELSE EntriesOfItem(st, Head(items), parentsWithAttachment)
       \o SecondPass(st, Tail(items), parentsWithAttachment)

(***************************************************************************)
(* SearchService.search (search.ts 83-121), after ensureIndex has returned *)
(***************************************************************************)
UsageOf(usage, id) == IF id \in DOMAIN usage THEN usage[id] ELSE 0

\* a variant of getRecencyBoost below that favours the ids opened longest ago
getRecencyBoost_Oldest(recent, itemID) ==
  LET idx == IndexOf(recent, itemID)
  IN  IF idx < 0 THEN 0 ELSE 4 * idx

\* a variant of getRecencyBoost below without the lower limit of zero
getRecencyBoost_Unclamped(recent, itemID) ==
  LET idx == IndexOf(recent, itemID)
  IN  IF idx < 0 THEN 0 ELSE 8 - idx

\* getRecencyBoost (search.ts 164-170)
getRecencyBoost(recent, itemID) ==
  LET idx == IndexOf(recent, itemID)
  IN  IF idx < 0 THEN 0 ELSE Max2(0, 8 - idx)

\* a variant of InsertByScore below that puts a result before the results of
\* equal score already placed
RECURSIVE InsertByScore_Unstable(_, _)
InsertByScore_Unstable(sorted, x) ==
  IF sorted = << >> THEN << x >>
  ELSE IF Head(sorted).score > x.score
       THEN << Head(sorted) >> \o InsertByScore_Unstable(Tail(sorted), x)
       ELSE << x >> \o sorted

\* results.sort((a, b) => b.score - a.score): stable, descending by score
RECURSIVE InsertByScore(_, _)
InsertByScore(sorted, x) ==
  IF sorted = << >> THEN << x >>
  ELSE IF Head(sorted).score >= x.score
       THEN << Head(sorted) >> \o InsertByScore(Tail(sorted), x)
       ELSE << x >> \o sorted

RECURSIVE SortByScore(_)
SortByScore(rs) ==
  IF rs = << >> THEN << >>
  ELSE InsertByScore(SortByScore(SubSeq(rs, 1, Len(rs) - 1)), rs[Len(rs)])

\* a variant of BaseScore below whose score without free text grows with the
\* length of the title
BaseScore_ByTitle(parsedQuery, entry) ==
  IF parsedQuery.textQuery # << >>
  THEN fuzzyScore(parsedQuery.textQuery, entry.searchText)
  ELSE 10 + Len(entry.title)

\* the base score of one entry: 0 or less means the entry is left out
BaseScore(parsedQuery, entry) ==
  IF parsedQuery.textQuery # << >>
  THEN fuzzyScore(parsedQuery.textQuery, entry.searchText)
  ELSE 10

ResultOfEntry(entry, score) ==
  [ id |-> entry.id, kind |-> entry.kind, resultType |-> entry.resultType,
    title |-> entry.title, subtitle |-> entry.subtitle, score |-> score,
    year |-> entry.year, libraryKind |-> entry.libraryKind,
    authors |-> entry.authors, tags |-> entry.tags,
    abstractSnippet |-> entry.abstractSnippet ]

\* a variant of ScoreEntry below that tests the total score, boosts included,
\* where the code tests the base score
ScoreEntry_TestTotal(parsedQuery, activeLib, usage, recent, entry) ==
  LET baseScore == BaseScore(parsedQuery, entry)
      frequencyBoost == UsageOf(usage, entry.id) * 3
      recencyBoost == getRecencyBoost(recent, entry.id)
      libraryBoost == IF activeLib # 0 /\ activeLib = entry.libraryID THEN 6 ELSE 0
      score == baseScore + frequencyBoost + recencyBoost + libraryBoost
  IN  IF ~matchesFilters(entry, parsedQuery.filters) THEN << >>
      ELSE IF score <= 0 THEN << >>
      ELSE << ResultOfEntry(entry, score) >>

\* the body of the for-loop of search for one entry: the results it pushes
ScoreEntry(parsedQuery, activeLib, usage, recent, entry) ==
  LET baseScore == BaseScore(parsedQuery, entry)
      frequencyBoost == UsageOf(usage, entry.id) * 3
      recencyBoost == getRecencyBoost(recent, entry.id)
      libraryBoost == IF activeLib # 0 /\ activeLib = entry.libraryID THEN 6 ELSE 0
  IN  IF ~matchesFilters(entry, parsedQuery.filters) THEN << >>
      ELSE IF baseScore <= 0 THEN << >>
      ELSE << ResultOfEntry(entry,
                baseScore + frequencyBoost + recencyBoost + libraryBoost) >>

RECURSIVE ScoreEntries(_, _, _, _, _)
ScoreEntries(parsedQuery, activeLib, usage, recent, entries) ==
  IF entries = << >> THEN << >>
  ELSE ScoreEntry(parsedQuery, activeLib, usage, recent, Head(entries))
       \o ScoreEntries(parsedQuery, activeLib, usage, recent, Tail(entries))

SearchResults(query, activeLib, idx, usage, recent, limit) ==
  Take(SortByScore(ScoreEntries(parseStructuredQuery(query), activeLib, usage,
                                recent, idx)), limit)

(***************************************************************************)
(* CommandRegistry (search.ts 1170-1568)                                   *)
(***************************************************************************)
VARIABLES
  cmdUsage,      \* CommandRegistry.usageCounts: command id -> count (0 when absent)
  cmdRuns,       \* run() calls suspended in `await command.run(runContext)`
  cmdSuccesses,  \* ghost: command id -> number of actions that completed
  lastRun,       \* ghost: what the last finished run() call gave its caller
  cmdCalls       \* ghost: the number of run() calls made

cmdVars == << cmdUsage, cmdRuns, cmdSuccesses, lastRun, cmdCalls >>

\* createBuiltInCommands (search.ts 1287-1502): the declarative part
createBuiltInCommands == <<
  [ id |-> "new-note",
    title |-> << "N", "e", "w", " ", "N", "o", "t", "e" >>,
    keywords |-> << << "c", "r", "e", "a", "t", "e" >>,
                   << "n", "o", "t", "e" >>,
                   << "c", "h", "i", "l", "d" >>,
                   << "s", "t", "a", "n", "d", "a", "l", "o", "n", "e" >> >>,
    contexts |-> { "main", "reader", "note" } ],
  [ id |-> "copy-citation",
    title |-> << "C", "o", "p", "y", " ", "C", "i", "t", "a", "t", "i", "o", "n" >>,
    keywords |-> << << "q", "u", "i", "c", "k", " ", "c", "o", "p", "y" >>,
                   << "r", "e", "f", "e", "r", "e", "n", "c", "e" >>,
                   << "c", "i", "t", "e" >>,
                   << "c", "l", "i", "p", "b", "o", "a", "r", "d" >> >>,
    contexts |-> { "main", "reader", "note" } ],
  [ id |-> "copy-bibliography",
    title |-> << "C", "o", "p", "y", " ", "B", "i", "b", "l", "i", "o", "g", "r", "a", "p", "h", "y" >>,
    keywords |-> << << "q", "u", "i", "c", "k", " ", "c", "o", "p", "y" >>,
                   << "r", "e", "f", "e", "r", "e", "n", "c", "e" >>,
                   << "b", "i", "b", "l", "i", "o", "g", "r", "a", "p", "h", "y" >>,
                   << "c", "l", "i", "p", "b", "o", "a", "r", "d" >> >>,
    contexts |-> { "main", "reader", "note" } ],
  [ id |-> "note-and-open-pdf",
    title |-> << "A", "d", "d", " ", "N", "o", "t", "e", " ", "+", " ", "O", "p", "e", "n", " ", "P", "D", "F" >>,
    keywords |-> << << "w", "o", "r", "k", "f", "l", "o", "w" >>,
                   << "n", "o", "t", "e" >>,
                   << "p", "d", "f" >>,
                   << "o", "p", "e", "n" >>,
                   << "f", "o", "c", "u", "s" >> >>,
    contexts |-> { "main", "reader", "note" } ],
  [ id |-> "open-collection",
    title |-> << "O", "p", "e", "n", " ", "C", "o", "l", "l", "e", "c", "t", "i", "o", "n" >>,
    keywords |-> << << "n", "a", "v", "i", "g", "a", "t", "e" >>,
                   << "f", "o", "l", "d", "e", "r" >>,
                   << "c", "o", "l", "l", "e", "c", "t", "i", "o", "n" >>,
                   << "l", "i", "b", "r", "a", "r", "y" >> >>,
    contexts |-> { "main", "reader", "note" } ] >>

CommandIds == { createBuiltInCommands[i].id : i \in DOMAIN createBuiltInCommands }

\* detectCommandContext (search.ts 1505-1522)
WindowTypeHasNote(windowType) == windowType \in { "zotero:note", "Zotero:NoteEditor" }

detectCommandContext(w) ==
  IF w.windowType = "zotero:reader" THEN "reader"
  ELSE IF WindowTypeHasNote(w.windowType) THEN "note"
  ELSE IF w.hrefHasNote THEN "note"
  ELSE IF w.hasReader THEN "reader"
  ELSE "main"

\* getActiveTabItemID (search.ts 1605-1634): the item of the selected tab
getActiveTabItemID(selTab) == selTab

\* CommandRegistry.getActiveItem: the first selected item of the pane, else the
\* item of the active tab, else null (NoItem)
getActiveItem(st, p, selTab) ==
  IF p.present /\ p.selectedItem # 0 /\ ItemsGet(st, p.selectedItem).id # 0
  THEN ItemsGet(st, p.selectedItem)
  ELSE IF getActiveTabItemID(selTab) # 0
       THEN ItemsGet(st, getActiveTabItemID(selTab))
       ELSE NoItem

\* getRunContext (search.ts 1241-1251)
getRunContext(st, p, selTab, w) ==
  [ pane |-> p, context |-> detectCommandContext(w),
    activeItem |-> getActiveItem(st, p, selTab) ]

\* getParentForCommand (search.ts 1542-1559)
getParentForCommand(st, item) ==
  IF item.id = 0 THEN NoItem
  ELSE IF item.kind = "regular" THEN item
  ELSE IF item.parentID # 0 THEN ItemsGet(st, item.parentID)
  ELSE item

\* getCitationTarget (search.ts 1524-1536)
getCitationTarget(st, item) ==
  LET parent == getParentForCommand(st, item)
  IN  IF parent.id = 0 THEN NoItem
      ELSE IF parent.kind = "regular" THEN parent
      ELSE IF parent.kind = "note" THEN NoItem
      ELSE parent

\* getFirstCollectionID(item) is not null
HasCollection(p, item) == item.id \in p.inCollection

\* the isAvailable predicates of the built-in commands: the `enabled` flag
isAvailable(st, commandId, ctx) ==
  LET p == ctx.pane
      editable == p.canEdit
      parent == getParentForCommand(st, ctx.activeItem)
  IN  CASE commandId = "new-note" ->
             p.present /\ editable
        [] commandId \in { "copy-citation", "copy-bibliography" } ->
             p.present /\ getCitationTarget(st, ctx.activeItem).id # 0
        [] commandId = "note-and-open-pdf" ->
             p.present /\ editable /\ parent.id # 0 /\ parent.kind = "regular"
        [] commandId = "open-collection" ->
             p.present /\ parent.id # 0 /\ HasCollection(p, parent)
        [] OTHER -> FALSE

CommandSearchText(command) ==
  normalize(command.title \o << " " >> \o JoinSp(command.keywords))

\* a variant of the loop body below that leaves out the availability check
ScoreCommand_NoGate(st, normalizedQuery, runContext, usage, command) ==
  LET baseScore == IF normalizedQuery # << >>
                   THEN fuzzyScore(normalizedQuery, CommandSearchText(command))
                   ELSE 10
  IN  IF baseScore <= 0 THEN << >>
      ELSE << [ kind |-> "command", commandId |-> command.id,
                title |-> command.title,
                score |-> baseScore + UsageOf(usage, command.id) * 4 ] >>

\* the body of the for-loop of CommandRegistry.search for one command
ScoreCommand(st, normalizedQuery, runContext, usage, command) ==
  LET baseScore == IF normalizedQuery # << >>
                   THEN fuzzyScore(normalizedQuery, CommandSearchText(command))
                   ELSE 10
      usageBoost == UsageOf(usage, command.id)
  IN  IF runContext.context \notin command.contexts THEN << >>
      ELSE IF ~isAvailable(st, command.id, runContext) THEN << >>
      ELSE IF baseScore <= 0 THEN << >>
      ELSE << [ kind |-> "command", commandId |-> command.id,
                title |-> command.title, score |-> baseScore + usageBoost * 4 ] >>

RECURSIVE ScoreCommands(_, _, _, _, _)
ScoreCommands(st, normalizedQuery, runContext, usage, commands) ==
  IF commands = << >> THEN << >>
  ELSE ScoreCommand(st, normalizedQuery, runContext, usage, Head(commands))
       \o ScoreCommands(st, normalizedQuery, runContext, usage, Tail(commands))

\* CommandRegistry.search (search.ts 1178-1216)
CommandSearch(st, query, runContext, usage, limit) ==
  Take(SortByScore(ScoreCommands(st, normalize(query), runContext, usage,
                                 createBuiltInCommands)), limit)

(***************************************************************************)
(* PaletteUI (palette.ts)                                                  *)
(***************************************************************************)
VARIABLES
  searchToken,   \* PaletteUI.searchToken
  results,       \* PaletteUI.results
  displayMode,   \* PaletteUI.displayMode
  currentQuery,  \* PaletteUI.currentQuery
  selectedIndex, \* PaletteUI.selectedIndex
  open,          \* PaletteUI.open
  inputValue,    \* PaletteUI.input.value
  recentSearches,            \* PaletteUI.recentSearches
  recentActivatedItemIDs,    \* PaletteUI.recentActivatedItemIDs
  recentClosedAttachmentIDs, \* PaletteUI.recentClosedAttachmentIDs
  lastOpenReaderIDs,         \* PaletteUI.lastOpenReaderIDs (in insertion order)
  opening,       \* activateSelection calls suspended in `await openResult(...)`
  shownToken,    \* ghost: the token of the updateResults call that wrote results
  shownQuery,    \* ghost: the raw query of that call
  lastQuery,     \* ghost: the raw query of the latest updateResults call
  discardedToken \* ghost: the token of the last call that returned at line 176

palVars ==
  << searchToken, results, displayMode, currentQuery, selectedIndex, open,
     inputValue, recentSearches, recentActivatedItemIDs,
     recentClosedAttachmentIDs, lastOpenReaderIDs, opening, shownToken,
     shownQuery, lastQuery, discardedToken >>

vars == << hostVars, svcVars, openVars, lastCall, peer, wm, cmdVars, palVars >>

\* getResultsLimit (palette.ts 982-988)
getResultsLimit(raw) == Min2(40, Max2(5, raw))

\* a variant of parseQuery below that does not trim the query
parseQuery_NoTrim(rawQuery) ==
  IF StartsWith(TrimStart(rawQuery), << ">" >>)
  THEN [ isCommandMode |-> TRUE, query |-> Drop(TrimStart(rawQuery), 1) ]
  ELSE [ isCommandMode |-> FALSE, query |-> rawQuery ]

\* a variant of parseQuery below that looks for ">" without trimming first
parseQuery_NoTrimStart(rawQuery) ==
  IF StartsWith(rawQuery, << ">" >>)
  THEN [ isCommandMode |-> TRUE, query |-> Trim(Drop(rawQuery, 1)) ]
  ELSE [ isCommandMode |-> FALSE, query |-> Trim(rawQuery) ]

\* parseQuery (palette.ts 990-1005)
parseQuery(rawQuery) ==
  LET trimmedStart == TrimStart(rawQuery)
  IN  IF StartsWith(trimmedStart, << ">" >>)
      THEN [ isCommandMode |-> TRUE, query |-> Trim(Drop(trimmedStart, 1)) ]
      ELSE [ isCommandMode |-> FALSE, query |-> Trim(rawQuery) ]

\* getOpenTabEntries (palette.ts 670-709): reader and note tabs, in tab order
IsEntryTab(tab) == tab.type \in { "reader", "note" }

getOpenTabEntries(tbs) ==
  LET kept == SelectSeq(tbs, IsEntryTab)
  IN  [ i \in DOMAIN kept |->
          [ kind |-> IF kept[i].type = "note" THEN "note" ELSE "attachment",
            itemID |-> kept[i].itemID ] ]

\* dedup-then-prepend with a cap: pushRecentClosed (10), pushRecentActivated (20),
\* pushRecentSearch (20), recordOpen (80)
PushFront(queue, x, cap) ==
  LET others == SelectSeq(queue, LAMBDA y : y # x)
  IN  Take(<< x >> \o others, cap)

\* updateRecentClosed (palette.ts 645-657): the new recentClosedAttachmentIDs
RECURSIVE PushClosed(_, _, _)
PushClosed(closed, lastOpen, currentOpen) ==
  IF lastOpen = << >> THEN closed
  ELSE PushClosed(IF Head(lastOpen) \in currentOpen THEN closed
                  ELSE PushFront(closed, Head(lastOpen), 10),
                  Tail(lastOpen), currentOpen)

\* new Set(array) keeps the first occurrence of each element, in order
RECURSIVE DedupSeq(_, _)
DedupSeq(s, acc) ==
  IF s = << >> THEN acc
  ELSE DedupSeq(Tail(s), IF Head(s) \in Range(acc) THEN acc ELSE Append(acc, Head(s)))

OpenAttachmentIDs(tbs) ==
  LET atts == SelectSeq(getOpenTabEntries(tbs), LAMBDA e : e.kind = "attachment")
  IN  DedupSeq([ i \in DOMAIN atts |-> atts[i].itemID ], << >>)

updateRecentClosed(closed, lastOpen, tbs) ==
  PushClosed(closed, lastOpen, Range(OpenAttachmentIDs(tbs)))

RecentResult(id, kind, resultType, title, subtitle, year, authors, tags, snippet) ==
  [ id |-> id, kind |-> kind, resultType |-> resultType, title |-> title,
    subtitle |-> subtitle, score |-> 0, year |-> year, libraryKind |-> "",
    authors |-> authors, tags |-> tags, abstractSnippet |-> snippet ]

\* createAttachmentResult / createItemResult / createNoteResult
\* (palette.ts 750-839): << >> stands for null
createAttachmentResult(st, attachmentID) ==
  LET attachment == ItemsGet(st, attachmentID)
      parent == getParentItem(st, attachment)
      has == parent.id # 0
      title == IF attachment.filename # << >> THEN attachment.filename
               ELSE getItemTitleSafe(attachment)
  IN  IF attachment.id = 0 \/ attachment.kind # "attachment" THEN << >>
      ELSE << RecentResult(attachmentID, "attachment",
                IF isPDFAttachment(attachment) THEN "pdf" ELSE "item",
                IF title # << >> THEN title ELSE Str_Attachment,
                IF has THEN getItemTitleSafe(parent) ELSE << >>,
                IF has THEN getItemYearSafe(parent) ELSE NullYear,
                << >>,
                IF has THEN getItemTagsSafe(parent, 3) ELSE << >>,
                IF has THEN getItemAbstractSnippetSafe(parent, 90) ELSE << >>) >>

createItemResult(st, itemID) ==
  LET item == ItemsGet(st, itemID)
  IN  IF item.id = 0 \/ item.kind # "regular" THEN << >>
      ELSE << RecentResult(itemID, "item", "item",
                IF getItemTitleSafe(item) # << >> THEN getItemTitleSafe(item)
                ELSE Str_item,
                getItemSubtitleSafe(item), getItemYearSafe(item),
                getItemAuthorsSafe(item), getItemTagsSafe(item, 3),
                getItemAbstractSnippetSafe(item, 90)) >>

createNoteResult(st, noteID) ==
  LET note == ItemsGet(st, noteID)
      parent == getParentItem(st, note)
      has == parent.id # 0
  IN  IF note.id = 0 \/ note.kind # "note" THEN << >>
      ELSE << RecentResult(noteID, "item", "note",
                IF note.title # << >> THEN note.title ELSE Str_Note,
                IF has THEN getItemTitleSafe(parent) ELSE Str_Note,
                IF has THEN getItemYearSafe(parent) ELSE NullYear,
                IF has THEN getItemAuthorsSafe(parent) ELSE << >>,
                getItemTagsSafe(note, 3),
                IF has THEN getItemAbstractSnippetSafe(parent, 90) ELSE << >>) >>

RECURSIVE CreateResults(_, _)
CreateResults(st, entries) ==
  IF entries = << >> THEN << >>
  ELSE LET entry == Head(entries)
       IN  (IF entry.kind = "note" THEN createNoteResult(st, entry.itemID)
            ELSE IF entry.kind = "attachment"
                 THEN createAttachmentResult(st, entry.itemID)
                 ELSE createItemResult(st, entry.itemID))
           \o CreateResults(st, Tail(entries))

\* Array.prototype.slice(-n) for n > 0, then reverse()
LastReversed(s, n) ==
  LET m == Min2(n, Len(s))
  IN  [ i \in 1 .. m |-> s[Len(s) - i + 1] ]

\* buildRecentResults (palette.ts 570-643), after updateRecentClosed:
\* closed is the updated recentClosedAttachmentIDs
buildRecentResults(st, tbs, activeID, closed, activated, searches, resultsLimit) ==
  LET openEntries == SelectSeq(getOpenTabEntries(tbs), LAMBDA e : e.itemID # activeID)
      historyLimit == Min2(3, resultsLimit \div 2)
      recentOpenLimit == Min2(3, Max2(0, resultsLimit - historyLimit))
      recentClosedLimit ==
        Max2(0, Min2(2, resultsLimit - historyLimit - recentOpenLimit))
      recentActivatedLimit ==
        Max2(0, resultsLimit - historyLimit - recentOpenLimit - recentClosedLimit)
      history == Take(searches, historyLimit)
      historyResults ==
        [ i \in DOMAIN history |->
            [ kind |-> "history", query |-> history[i], title |-> history[i],
              score |-> historyLimit - (i - 1) ] ]
      recentOpen == IF recentOpenLimit = 0 THEN LastReversed(openEntries, Len(openEntries))
                    ELSE LastReversed(openEntries, recentOpenLimit)
      closedKept == Take(SelectSeq(closed, LAMBDA id : id # activeID), recentClosedLimit)
      recentClosed == [ i \in DOMAIN closedKept |->
                          [ kind |-> "attachment", itemID |-> closedKept[i] ] ]
      activatedKept ==
        Take(SelectSeq(activated, LAMBDA id : activeID = 0 \/ id # activeID),
             recentActivatedLimit)
      activatedFound == SelectSeq(activatedKept, LAMBDA id : ItemsGet(st, id).id # 0)
      recentActivated ==
        [ i \in DOMAIN activatedFound |->
            [ kind |-> IF ItemsGet(st, activatedFound[i]).kind = "attachment"
                       THEN "attachment" ELSE "item",
              itemID |-> activatedFound[i] ] ]
      entries == recentOpen \o recentClosed \o recentActivated
  IN  Take(historyResults \o CreateResults(st, entries), resultsLimit)

(***************************************************************************)
(* Index lifecycle: ensureIndex, buildIndex, the notifier                  *)
(***************************************************************************)
IndexTTL == 300000

\* a variant of IndexFresh below that still reuses the index when exactly
\* IndexTTL has elapsed
IndexFresh_Inclusive(ready, stale, indexedAt, nowAt) ==
  ready /\ ~stale /\ nowAt - indexedAt <= IndexTTL

\* the freshness gate of ensureIndex (search.ts 139-145)
IndexFresh(ready, stale, indexedAt, nowAt) ==
  ready /\ ~stale /\ nowAt - indexedAt < IndexTTL

\* a buildIndex call on behalf of updateResults call `token` (0: warmIndex),
\* about to await Zotero.Items.getAll of its first library
NewBuild(token, raw, query, limit) ==
  [ token |-> token, raw |-> raw, query |-> query, limit |-> limit,
    activeLib |-> activeLibraryID, nowAt |-> now, nextLib |-> 1,
    entries |-> << >>, parentsWithAttachment |-> {},
    vers |-> [ l \in Libraries |-> 0 ] ]

\* one iteration of the library loop of buildIndex (search.ts 188-287), run when
\* getAll resolves with the library's current records
BuildLibrary(b) ==
  LET items == store[b.nextLib]
      pwa == FirstPass(items, b.parentsWithAttachment)
  IN  [ b EXCEPT !.nextLib = b.nextLib + 1,
                 !.parentsWithAttachment = pwa,
                 !.entries = b.entries \o SecondPass(store, items, pwa),
                 !.vers = [ b.vers EXCEPT ![b.nextLib] = libVer[b.nextLib] ] ]

\* updateResults (palette.ts 151-183) up to its first suspension, with
\* `searches` the value of recentSearches when it is called; the callers set the
\* palette fields updateResults does not touch
UpdateResultsWith(query, searches) ==
  LET token == searchToken + 1
      parsedQuery == parseQuery(query)
      resultsLimit == getResultsLimit(prefResultsLimit)
      closed == updateRecentClosed(recentClosedAttachmentIDs, lastOpenReaderIDs, tabs)
  IN  /\ searchToken' = token
      /\ currentQuery' = parsedQuery.query
      /\ lastQuery' = query
      /\ discardedToken' = discardedToken
      /\ IF ~parsedQuery.isCommandMode /\ parsedQuery.query = << >>
         THEN /\ results' = buildRecentResults(store, tabs, selectedTab, closed,
                              recentActivatedItemIDs, searches, resultsLimit)
              /\ recentClosedAttachmentIDs' = closed
              /\ lastOpenReaderIDs' = OpenAttachmentIDs(tabs)
              /\ displayMode' = "recent"
              /\ selectedIndex' = 0
              /\ shownToken' = token
              /\ shownQuery' = query
              /\ builds' = builds
         ELSE /\ UNCHANGED << recentClosedAttachmentIDs, lastOpenReaderIDs >>
              /\ IF parsedQuery.isCommandMode
                 THEN /\ results' = CommandSearch(store, parsedQuery.query,
                                      getRunContext(store, pane, selectedTab, win),
                                      cmdUsage, resultsLimit)
                      /\ displayMode' = "command"
                      /\ selectedIndex' = 0
                      /\ shownToken' = token
                      /\ shownQuery' = query
                      /\ builds' = builds
                 ELSE IF IndexFresh(indexReady, indexStale, lastIndexedAt, now)
                 THEN /\ results' = SearchResults(parsedQuery.query, activeLibraryID,
                                      index, usageCounts, recentItemIDs, resultsLimit)
                      /\ displayMode' = "search"
                      /\ selectedIndex' = 0
                      /\ shownToken' = token
                      /\ shownQuery' = query
                      /\ builds' = builds
                 ELSE /\ builds' = builds \cup
                                     { NewBuild(token, query, parsedQuery.query,
                                                resultsLimit) }
                      /\ UNCHANGED << results, displayMode, selectedIndex,
                                      shownToken, shownQuery >>

UpdateResults(query) == UpdateResultsWith(query, recentSearches)

\* bounds of the explored runs
MaxToken == 3
MaxVer == 1
TickStep == 200000
MaxNow == 400000

palIdle == << open, inputValue, recentSearches, recentActivatedItemIDs, opening >>
svcIndex == << index, indexReady, indexStale, lastIndexedAt, indexVer >>

\* WindowManager.registerWindow (part_003 30-60): new SearchService(), new
\* PaletteUI(...), searchService.warmIndex()
RegisterWindow ==
  /\ ~warmed
  /\ warmed' = TRUE
  /\ builds' = builds \cup { NewBuild(0, << >>, << >>, 0) }
  /\ UNCHANGED << hostVars, svcIndex, openVars, lastCall, peer, wm, cmdVars, palVars >>

\* PaletteUI.show (palette.ts 91-102)
Show ==
  /\ warmed /\ ~open /\ searchToken < MaxToken
  /\ open' = TRUE
  /\ inputValue' = << >>
  /\ UpdateResults(<< >>)
  /\ UNCHANGED << hostVars, svcIndex, warmed, openVars, lastCall, peer, wm, cmdVars,
                  recentSearches, recentActivatedItemIDs, opening >>

\* PaletteUI.hide (palette.ts 104-107)
Hide ==
  /\ open
  /\ open' = FALSE
  /\ UNCHANGED << hostVars, svcVars, openVars, lastCall, peer, wm, cmdVars, searchToken, results,
                  displayMode, currentQuery, selectedIndex, inputValue,
                  recentSearches, recentActivatedItemIDs,
                  recentClosedAttachmentIDs, lastOpenReaderIDs, opening,
                  shownToken, shownQuery, lastQuery, discardedToken >>

\* the input listener (palette.ts 117-119): the user has edited the field to q
TypeInput(q) ==
  /\ warmed /\ open /\ searchToken < MaxToken
  /\ inputValue' = q
  /\ UpdateResults(q)
  /\ UNCHANGED << hostVars, svcIndex, warmed, openVars, lastCall, peer, wm, cmdVars, open,
                  recentSearches, recentActivatedItemIDs, opening >>

\* getAll of a library that is not the last one resolves (search.ts 191-286)
BuildNextLibrary(b) ==
  /\ b \in builds
  /\ b.nextLib < NumLibs
  /\ ~FirstPassThrows(store[b.nextLib])
  /\ builds' = (builds \ { b }) \cup { BuildLibrary(b) }
  /\ UNCHANGED << hostVars, svcIndex, warmed, openVars, lastCall, peer, wm, cmdVars, palVars >>

\* getAll resolves and isAttachment() of one of the records throws in the first
\* loop (search.ts 192-203): buildIndex, ensureIndex, search and updateResults
\* reject in turn, none of them assigning anything
BuildAbort(b) ==
  /\ b \in builds
  /\ FirstPassThrows(store[b.nextLib])
  /\ builds' = builds \ { b }
  /\ UNCHANGED << hostVars, svcIndex, warmed, openVars, lastCall, peer, wm, cmdVars, palVars >>

\* the token comparison of updateResults (palette.ts 175-177), with a variant
\* that renders whatever resolves
TokenCurrent_Always(token) == TRUE

TokenCurrent(token) == token = searchToken

\* `this.index = await buildIndex()` (search.ts 146), with a variant that
\* keeps the entries of the generation before
AssignIndex_Append(before, entries) == before \o entries

AssignIndex(before, entries) == entries

\* getAll of the last library resolves: buildIndex returns, ensureIndex assigns
\* (search.ts 146-149), search scores the new index (search.ts 91-120) and
\* updateResults compares its token (palette.ts 175-182)
BuildFinish(b) ==
  LET done == BuildLibrary(b)
  IN  /\ b \in builds
      /\ b.nextLib = NumLibs
      /\ ~FirstPassThrows(store[b.nextLib])
      /\ builds' = builds \ { b }
      /\ index' = AssignIndex(index, done.entries)
      /\ indexReady' = TRUE
      /\ indexStale' = FALSE
      /\ lastIndexedAt' = b.nowAt
      /\ indexVer' = done.vers
      /\ IF b.token = 0
         THEN UNCHANGED palVars
         ELSE IF ~TokenCurrent(b.token)
         THEN /\ discardedToken' = b.token
              /\ UNCHANGED << searchToken, results, displayMode, currentQuery,
                              selectedIndex, palIdle, recentClosedAttachmentIDs,
                              lastOpenReaderIDs, shownToken, shownQuery, lastQuery >>
         ELSE /\ results' = SearchResults(b.query, b.activeLib, index',
                              usageCounts, recentItemIDs, b.limit)
              /\ displayMode' = "search"
              /\ selectedIndex' = 0
              /\ shownToken' = b.token
              /\ shownQuery' = b.raw
              /\ UNCHANGED << searchToken, currentQuery, palIdle,
                              recentClosedAttachmentIDs, lastOpenReaderIDs,
                              lastQuery, discardedToken >>
      /\ UNCHANGED << hostVars, warmed, openVars, lastCall, peer, wm, cmdVars >>

\* the document store commits a change to library l and the notifier callback
\* runs (search.ts 154-156)
ItemChange(l, items) ==
  /\ libVer[l] < MaxVer
  /\ items # store[l]
  /\ store' = [ store EXCEPT ![l] = items ]
  /\ libVer' = [ libVer EXCEPT ![l] = libVer[l] + 1 ]
  /\ indexStale' = IF warmed THEN TRUE ELSE indexStale
  /\ peer' = NotifyPeer(peer)
  /\ UNCHANGED << now, activeLibraryID, tabs, selectedTab, pane, win,
                  prefResultsLimit, index, indexReady, lastIndexedAt, indexVer,
                  builds, warmed, openVars, lastCall, wm, cmdVars, palVars >>

\* the clock advances
Tick ==
  /\ now < MaxNow
  /\ now' = now + TickStep
  /\ UNCHANGED << store, libVer, activeLibraryID, tabs, selectedTab, pane, win,
                  prefResultsLimit, svcVars, openVars, lastCall, peer, wm, cmdVars, palVars >>

(***************************************************************************)
(* Initial states                                                          *)
(***************************************************************************)
\* a record of the document store with every optional field absent
Item(id, kind, parentID, libraryID, title) ==
  [ id |-> id, kind |-> kind, parentID |-> parentID, libraryID |-> libraryID,
    linkMode |-> "other", isAnnotation |-> FALSE, contentType |-> "",
    isPDF |-> FALSE, title |-> title, filename |-> << >>,
    firstCreator |-> << >>, abstractNote |-> << >>, tags |-> << >>,
    date |-> << >>, note |-> << >>, displayTitle |-> << >>,
    creators |-> << >>, unloaded |-> {}, throwsAt |-> "none" ]

MainWindow == [ windowType |-> "navigator:browser", hrefHasNote |-> FALSE,
                hasReader |-> FALSE ]

HostInit(st) ==
  /\ store = st
  /\ libVer = [ l \in Libraries |-> 0 ]
  /\ now = 0
  /\ activeLibraryID = 1
  /\ tabs = << >>
  /\ selectedTab = 0
  /\ pane = [ present |-> TRUE, canEdit |-> TRUE, selectedItem |-> 0,
              inCollection |-> {} ]
  /\ win = MainWindow
  /\ prefResultsLimit = 20

\* SearchService field initialisers (search.ts 64-70)
ServiceInit ==
  /\ index = << >>
  /\ indexReady = FALSE
  /\ indexStale = TRUE
  /\ lastIndexedAt = 0
  /\ indexVer = [ l \in Libraries |-> 0 ]
  /\ builds = {}
  /\ warmed = FALSE
  /\ usageCounts = << >>
  /\ recentItemIDs = << >>
  /\ openCalls = << >>
  /\ lastOpenCall = 0
  /\ openSteps = 0
  /\ lastCall = NoCall
  /\ peer = NoPeer /\ wm = NoManager

\* CommandRegistry field initialisers (search.ts 1171-1176)
CommandInit ==
  /\ cmdUsage = << >>
  /\ cmdRuns = {}
  /\ cmdSuccesses = << >>
  /\ lastRun = [ commandId |-> "", outcome |-> "none", threw |-> FALSE,
                 completed |-> FALSE ]
  /\ cmdCalls = 0

\* PaletteUI field initialisers (palette.ts 37-48, 80)
PaletteInit ==
  /\ searchToken = 0
  /\ results = << >>
  /\ displayMode = "recent"
  /\ currentQuery = << >>
  /\ selectedIndex = 0
  /\ open = FALSE
  /\ inputValue = << >>
  /\ recentSearches = << >>
  /\ recentActivatedItemIDs = << >>
  /\ recentClosedAttachmentIDs = << >>
  /\ lastOpenReaderIDs = << >>
  /\ opening = {}
  /\ shownToken = 0
  /\ shownQuery = << >>
  /\ lastQuery = << >>
  /\ discardedToken = 0

(***************************************************************************)
(* Specification of the index lifecycle: one window, two libraries whose   *)
(* single record is retitled by the changes                                *)
(***************************************************************************)
LifecycleTitles == { << "a", "b" >>, << "b", "c" >> }

LifecycleLibrary(l) == { << Item(l, "regular", 0, l, t) >> : t \in LifecycleTitles }

LifecycleQueries == { << "a" >>, << "b" >>, << ">", "n" >> }

InitialLifecycleStore ==
  [ l \in Libraries |-> << Item(l, "regular", 0, l, << "a", "b" >>) >> ]

InitLifecycle ==
  /\ HostInit(InitialLifecycleStore)
  /\ ServiceInit
  /\ CommandInit
  /\ PaletteInit

NextLifecycle ==
  \/ RegisterWindow
  \/ Show
  \/ \E q \in LifecycleQueries : TypeInput(q)
  \/ \E b \in builds : BuildNextLibrary(b)
  \/ \E b \in builds : BuildFinish(b)
  \/ \E l \in Libraries : \E items \in LifecycleLibrary(l) : ItemChange(l, items)
  \/ Tick

SpecLifecycle == InitLifecycle /\ [][NextLifecycle]_vars

(***************************************************************************)
(* Properties of the index lifecycle                                       *)
(***************************************************************************)
\* C1: the displayed results are written only by the updateResults call that
\* holds the current token: a search that resolves after a later call has
\* started never overwrites what is displayed.
C1_TokenDiscard ==
  [][(results' # results \/ shownToken' # shownToken)
       => shownToken' = searchToken']_vars

\* search A was issued, then search B; B was rendered and A, resolving later,
\* was discarded
C1_StaleDiscarded ==
  /\ discardedToken # 0
  /\ shownToken > discardedToken
  /\ shownToken = searchToken
  /\ displayMode = "search"

\* C2: whenever no build is in flight and indexStale is false, every library
\* of the cached index was read after the last change committed to it.
C2_IndexInSync ==
  (builds = {} /\ indexReady /\ ~indexStale)
    => \A l \in Libraries : indexVer[l] = libVer[l]

\* C3: at most one buildIndex call is in flight.
C3_OneBuildInFlight == Cardinality(builds) <= 1

(***************************************************************************)
(* SearchService.recordOpen (search.ts 123-131)                            *)
(***************************************************************************)
RecentCap == 80
MaxOpenSteps == 3

\* a Map after set(key, get(key) + 1)
Increment(counts, key) ==
  [ k \in DOMAIN counts \cup { key } |->
      IF k = key THEN UsageOf(counts, key) + 1 ELSE counts[k] ]

\* lines 128-130, with a variant that prepends without removing the id first
RecordOpenQueue_NoDedup(queue, itemID) == Take(<< itemID >> \o queue, RecentCap)

RecordOpenQueue(queue, itemID) == PushFront(queue, itemID, RecentCap)

\* what recordOpen(itemID) does to the service; 0 stands for every falsy id
RecordOpenEffect(itemID) ==
  /\ openSteps' = openSteps + 1
  /\ UNCHANGED << lastCall, peer, wm >>
  /\ IF itemID = 0
     THEN UNCHANGED << usageCounts, recentItemIDs, openCalls, lastOpenCall >>
     ELSE /\ usageCounts' = Increment(usageCounts, itemID)
          /\ recentItemIDs' = RecordOpenQueue(recentItemIDs, itemID)
          /\ openCalls' = Increment(openCalls, itemID)
          /\ lastOpenCall' = itemID

RecordOpen(itemID) ==
  /\ openSteps < MaxOpenSteps
  /\ RecordOpenEffect(itemID)
  /\ UNCHANGED << hostVars, svcVars, cmdVars, palVars >>

\* the ids the calls are made with: two early ids, the ids around the cap, and 0
OpenIds == { 0, 1, 2, RecentCap, RecentCap + 1, RecentCap + 2 }

\* the service after recordOpen(n), recordOpen(n - 1), ..., recordOpen(1)
OpenedDownFrom(n) ==
  /\ usageCounts = [ i \in 1 .. n |-> 1 ]
  /\ recentItemIDs = [ i \in 1 .. n |-> i ]
  /\ openCalls = [ i \in 1 .. n |-> 1 ]
  /\ lastOpenCall = IF n = 0 THEN 0 ELSE 1
  /\ openSteps = 0
  /\ lastCall = NoCall
  /\ peer = NoPeer /\ wm = NoManager

InitOpen ==
  /\ HostInit([ l \in Libraries |-> << >> ])
  /\ index = << >> /\ indexReady = FALSE /\ indexStale = TRUE
  /\ lastIndexedAt = 0 /\ indexVer = [ l \in Libraries |-> 0 ]
  /\ builds = {} /\ warmed = FALSE
  /\ \E n \in { 0, RecentCap - 1, RecentCap } : OpenedDownFrom(n)
  /\ CommandInit
  /\ PaletteInit

NextOpen == \E itemID \in OpenIds : RecordOpen(itemID)

SpecOpen == InitOpen /\ [][NextOpen]_vars

\* C4: for every record id the usage count is the number of recordOpen calls
\* made with it, the recency queue holds no id twice and at most 80 ids, and
\* the id of the most recent call is at its front.
C4_RecordOpen ==
  /\ \A id \in (DOMAIN openCalls \cup DOMAIN usageCounts) \ { 0 } :
       UsageOf(usageCounts, id) = UsageOf(openCalls, id)
  /\ NoDup(recentItemIDs)
  /\ Len(recentItemIDs) <= RecentCap
  /\ lastOpenCall # 0 => (recentItemIDs # << >> /\ recentItemIDs[1] = lastOpenCall)

\* the queue is full, id 80 was pushed out by a new id and id 2 was opened again
C4_FullQueueReopened ==
  /\ Len(recentItemIDs) = RecentCap
  /\ RecentCap + 1 \in Range(recentItemIDs)
  /\ RecentCap \notin Range(recentItemIDs)
  /\ UsageOf(usageCounts, 2) = 2
  /\ recentItemIDs[1] = 2

(***************************************************************************)
(* Specification of one index build: library 1 holds a regular item and up *)
(* to two children of it, library 2 a standalone record                    *)
(***************************************************************************)
Str_pdfFile == << "a", ".", "p", "d", "f" >>

\* the attachment shapes of the document store: stored PDF, web snapshot, image
\* embedded in a note, linked attachment with and without a content type
AttachmentShapes ==
  { [ linkMode |-> "file", contentType |-> "application/pdf", isPDF |-> TRUE ],
    [ linkMode |-> "web", contentType |-> "text/html", isPDF |-> FALSE ],
    [ linkMode |-> "embedded", contentType |-> "image/png", isPDF |-> FALSE ],
    [ linkMode |-> "other", contentType |-> "application/pdf", isPDF |-> TRUE ],
    [ linkMode |-> "other", contentType |-> "", isPDF |-> FALSE ] }

Attachment(id, parentID, libraryID, shape, throwsAt) ==
  [ Item(id, "attachment", parentID, libraryID, << >>) EXCEPT
      !.linkMode = shape.linkMode, !.contentType = shape.contentType,
      !.isPDF = shape.isPDF, !.filename = Str_pdfFile, !.throwsAt = throwsAt ]

Throwing(item, throwsAt) == [ item EXCEPT !.throwsAt = throwsAt ]

BuildParents ==
  { Throwing(Item(1, "regular", 0, 1, << "p" >>), t) : t \in { "none", "derive" } }

BuildChildren(id) ==
  { Attachment(id, 1, 1, shape, t) :
      shape \in AttachmentShapes, t \in { "none", "derive", "classify" } }
  \cup { Item(id, "note", 1, 1, << "n" >>) }

BuildSolos ==
  { Throwing(Item(4, "regular", 0, 2, << "s" >>), t) : t \in { "none", "derive" } }
  \cup { Attachment(4, 0, 2, shape, "none") : shape \in AttachmentShapes }

BuildStores ==
  { [ l \in Libraries |-> IF l = 1 THEN << parent >> \o kids
                          ELSE IF l = 2 THEN << solo >> ELSE << >> ] :
      parent \in BuildParents,
      kids \in { << >> } \cup { << c >> : c \in BuildChildren(2) }
                 \cup { << c, d >> : c \in BuildChildren(2),
                                     d \in { e \in BuildChildren(3) : e.throwsAt = "none" } },
      solo \in BuildSolos }

InitBuild ==
  /\ \E st \in BuildStores : HostInit(st)
  /\ ServiceInit
  /\ CommandInit
  /\ PaletteInit

NextBuild ==
  \/ RegisterWindow
  \/ \E b \in builds : BuildNextLibrary(b)
  \/ \E b \in builds : BuildAbort(b)
  \/ \E b \in builds : BuildFinish(b)

SpecBuild == InitBuild /\ [][NextBuild]_vars

\* the number of entries of the index whose id is in ids
EntryCount(idx, ids) == Cardinality({ i \in DOMAIN idx : idx[i].id \in ids })

SearchableAttachmentsOf(st, item) ==
  { a \in AllItems(st) : a.parentID = item.id /\ isSearchableAttachment(a) }

\* C5: in every index generation a regular item with a searchable attachment
\* has no entry of its own; with exactly one searchable attachment, a PDF, it
\* contributes exactly one entry, the attachment's; with none it has exactly
\* one entry.
C5_Suppression ==
  (indexReady /\ builds = {}) =>
    \A r \in { it \in AllItems(store) : it.kind = "regular" } :
      LET atts == SearchableAttachmentsOf(store, r)
          own == EntryCount(index, { r.id })
          ofAtts == EntryCount(index, { a.id : a \in atts })
      IN  /\ atts # {} => own = 0
          /\ (Cardinality(atts) = 1 /\ \A a \in atts : a.isPDF)
               => (own = 0 /\ ofAtts = 1)
          /\ atts = {} => own = 1

\* the records whose entry the second loop derives without an exception
DerivableRecords(st) ==
  { it \in AllItems(st) :
      /\ it.throwsAt = "none"
      /\ ~DeriveThrows(st, it)
      /\ \/ it.kind = "note"
         \/ it.kind = "attachment" /\ isSearchableAttachment(it)
         \/ it.kind = "regular" /\ SearchableAttachmentsOf(st, it) = {} }

\* C13: whatever single record throws while it is classified or derived, a
\* started rebuild completes, and the index it leaves holds the entry of
\* every other eligible record.
C13_BadRecordNeverAborts ==
  (warmed /\ builds = {}) =>
    /\ indexReady
    /\ \A it \in DerivableRecords(store) : EntryCount(index, { it.id }) = 1

(***************************************************************************)
(* CommandRegistry.run (search.ts 1218-1239)                               *)
(***************************************************************************)
MaxRuns == 2

\* what run() gives its caller once `await command.run(runContext)` has
\* settled: the try/catch of lines 1228-1238, with a variant without the catch
RunOutcome_NoCatch(threw) == IF threw THEN "rejected" ELSE "true"

RunOutcome(threw) == IF threw THEN "false" ELSE "true"

\* the usage map after the await has settled (lines 1230-1233), with a variant
\* that counts the attempt
RunUsage_Always(usage, commandId, threw) == Increment(usage, commandId)

RunUsage(usage, commandId, threw) ==
  IF threw THEN usage ELSE Increment(usage, commandId)

\* the availability test of run() (lines 1223-1227), with a variant that
\* trusts the search that returned the command
RunEnabled_AsSearched(st, commandId, runContext) == TRUE

RunEnabled(st, commandId, runContext) == isAvailable(st, commandId, runContext)

\* run(commandId, win) up to its first suspension: lines 1219-1229
RunStart(commandId, caller) ==
  LET runContext == getRunContext(store, pane, selectedTab, win)
  IN  /\ cmdCalls' = cmdCalls + 1
      /\ IF commandId \notin CommandIds \/ ~RunEnabled(store, commandId, runContext)
         THEN /\ lastRun' = [ commandId |-> commandId, outcome |-> "false",
                              threw |-> FALSE, completed |-> FALSE ]
              /\ UNCHANGED cmdRuns
         ELSE /\ cmdRuns' = cmdRuns \cup
                   { [ commandId |-> commandId, caller |-> caller, call |-> cmdCalls ] }
              /\ UNCHANGED lastRun
      /\ UNCHANGED << cmdUsage, cmdSuccesses >>

\* a caller other than the palette calls run(commandId, win)
RunCommand(commandId) ==
  /\ warmed /\ cmdCalls < MaxRuns
  /\ RunStart(commandId, "api")
  /\ UNCHANGED << hostVars, svcVars, openVars, lastCall, peer, wm, palVars >>

\* the action of a suspended run settles: it completed, or it threw. What the
\* action does to the host is not part of the registry and is left out.
RunFinish(r, threw) ==
  /\ r \in cmdRuns
  /\ cmdRuns' = cmdRuns \ { r }
  /\ cmdUsage' = RunUsage(cmdUsage, r.commandId, threw)
  /\ cmdSuccesses' = IF threw THEN cmdSuccesses ELSE Increment(cmdSuccesses, r.commandId)
  /\ lastRun' = [ commandId |-> r.commandId, outcome |-> RunOutcome(threw),
                  threw |-> threw, completed |-> ~threw ]
  /\ open' = IF r.caller = "palette" /\ RunOutcome(threw) = "true" THEN FALSE ELSE open
  /\ UNCHANGED << hostVars, svcVars, openVars, lastCall, peer, wm, cmdCalls, searchToken, results,
                  displayMode, currentQuery, selectedIndex, inputValue,
                  recentSearches, recentActivatedItemIDs,
                  recentClosedAttachmentIDs, lastOpenReaderIDs, opening,
                  shownToken, shownQuery, lastQuery, discardedToken >>

\* PaletteUI.moveSelection (palette.ts 185-199)
MoveSelection(delta) ==
  LET nextIndex == Max2(0, Min2(Len(results) - 1, selectedIndex + delta))
  IN  /\ warmed /\ open
      /\ results # << >>
      /\ nextIndex # selectedIndex
      /\ selectedIndex' = nextIndex
      /\ UNCHANGED << hostVars, svcVars, openVars, lastCall, peer, wm, cmdVars, searchToken, results,
                      displayMode, currentQuery, open, inputValue, recentSearches,
                      recentActivatedItemIDs, recentClosedAttachmentIDs,
                      lastOpenReaderIDs, opening, shownToken, shownQuery,
                      lastQuery, discardedToken >>

(***************************************************************************)
(* PaletteUI.activateSelection (palette.ts 201-228) and                    *)
(* ActionHandler.openResult (search.ts 974-1108)                           *)
(***************************************************************************)
\* getExistingReader (search.ts 1120-1129): a reader of the attachment, in a
\* tab or in a window
HasReaderTab(tbs, itemID) ==
  \E i \in DOMAIN tbs : tbs[i].type \in { "reader", "window" } /\ tbs[i].itemID = itemID

\* existing.tabID is set for a reader in a tab
ReaderInTab(tbs, itemID) ==
  \E i \in DOMAIN tbs : tbs[i].type = "reader" /\ tbs[i].itemID = itemID

HasNoteTab(tbs, itemID) ==
  \E i \in DOMAIN tbs : tbs[i].type = "note" /\ tbs[i].itemID = itemID

\* getPrimaryAttachmentID: the host's best attachment of the item, taken to be
\* its first child attachment; 0 when it has none
PrimaryAttachmentID(st, itemID) ==
  LET kids == { a.id : a \in { c \in AllItems(st) :
                                 c.kind = "attachment" /\ c.parentID = itemID } }
  IN  IF kids = {} THEN 0 ELSE CHOOSE k \in kids : \A j \in kids : k <= j

\* what a call of openAttachment leaves: the readers and tabs, the selected
\* tab, whether Reader.open and pane.viewAttachment were called and whether
\* the call rejected
Opened(tbs, selTab, opened, viewed, threw) ==
  [ tabs |-> tbs, selectedTab |-> selTab, opened |-> opened, viewed |-> viewed,
    threw |-> threw ]

\* a variant of ReaderOpenFailed below without the try/catch
ReaderOpenFailed_Propagates(tbs, selTab, attachmentID, viewOpens) ==
  Opened(tbs, selTab, TRUE, FALSE, TRUE)

\* Reader.open throws (search.ts 1012-1022): the error is logged and
\* pane.viewAttachment is called; whether the host then shows the attachment
\* in a reader tab (viewOpens) is the host's business
ReaderOpenFailed(tbs, selTab, attachmentID, viewOpens) ==
  IF viewOpens
  THEN Opened(Append(tbs, [ type |-> "reader", itemID |-> attachmentID ]),
              attachmentID, TRUE, TRUE, FALSE)
  ELSE Opened(tbs, selTab, TRUE, TRUE, FALSE)

\* openAttachment (search.ts 991-1023); readerOpen is what Reader.open does
\* ("opens" or "throws")
openAttachment(st, tbs, selTab, attachmentID, alternate, readerOpen, viewOpens) ==
  IF ItemsGet(st, attachmentID).id = 0 THEN Opened(tbs, selTab, FALSE, FALSE, FALSE)
  ELSE IF HasReaderTab(tbs, attachmentID)
  THEN Opened(tbs, IF ReaderInTab(tbs, attachmentID) THEN attachmentID ELSE selTab,
              FALSE, FALSE, FALSE)
  ELSE IF readerOpen = "throws"
  THEN ReaderOpenFailed(tbs, selTab, attachmentID, viewOpens)
  ELSE IF alternate
  THEN Opened(Append(tbs, [ type |-> "window", itemID |-> attachmentID ]), selTab,
              TRUE, FALSE, FALSE)
  ELSE Opened(Append(tbs, [ type |-> "reader", itemID |-> attachmentID ]),
              attachmentID, TRUE, FALSE, FALSE)

\* the tabs and the selected tab after an openAttachment whose Reader.open succeeds
OpenAttachmentTabs(st, tbs, selTab, attachmentID, alternate) ==
  LET left == openAttachment(st, tbs, selTab, attachmentID, alternate, "opens", FALSE)
  IN  << left.tabs, left.selectedTab >>

\* openResult as the host shows it: the tabs, the selected tab and the item
\* selected in the pane
OpenResultEffect(o) ==
  LET item == ItemsGet(store, o.id)
      alternate == o.intent = "alternate"
      primary == PrimaryAttachmentID(store, o.id)
      viaItem == IF primary # 0
                 THEN OpenAttachmentTabs(store, tabs, 0, primary, alternate)
                 ELSE << tabs, 0 >>
      direct == OpenAttachmentTabs(store, tabs, selectedTab, o.id, alternate)
  IN  IF o.intent = "reveal"
      THEN /\ selectedTab' = 0
           /\ pane' = [ pane EXCEPT !.selectedItem = o.id ]
           /\ tabs' = tabs
      ELSE IF o.kind = "attachment"
      THEN /\ tabs' = direct[1]
           /\ selectedTab' = direct[2]
           /\ pane' = pane
      ELSE IF item.id # 0 /\ item.kind = "note"
      THEN /\ tabs' = IF HasNoteTab(tabs, o.id) THEN tabs
                      ELSE Append(tabs, [ type |-> "note", itemID |-> o.id ])
           /\ selectedTab' = o.id
           /\ pane' = pane
      ELSE /\ pane' = [ pane EXCEPT !.selectedItem = o.id ]
           /\ tabs' = viaItem[1]
           /\ selectedTab' = viaItem[2]

\* a variant of pushRecentSearch below that prepends without removing the
\* query first
pushRecentSearch_NoDedup(searches, query, mode) ==
  LET normalizedQuery == Trim(query)
  IN  IF normalizedQuery = << >> \/ mode # "search" THEN searches
      ELSE Take(<< normalizedQuery >> \o searches, 20)

\* pushRecentSearch (palette.ts 1080-1090)
pushRecentSearch(searches, query, mode) ==
  LET normalizedQuery == Trim(query)
  IN  IF normalizedQuery = << >> \/ mode # "search" THEN searches
      ELSE PushFront(searches, normalizedQuery, 20)

\* removeRecentSearch (palette.ts 1092-1096)
removeRecentSearch(searches, query) == SelectSeq(searches, LAMBDA entry : entry # query)

\* the click listener of the delete button of a history row (palette.ts 287-292)
DeleteHistory(query) ==
  /\ warmed /\ open /\ searchToken < MaxToken
  /\ \E i \in DOMAIN results : results[i].kind = "history" /\ results[i].query = query
  /\ recentSearches' = removeRecentSearch(recentSearches, query)
  /\ UpdateResultsWith(inputValue, recentSearches')
  /\ UNCHANGED << hostVars, svcIndex, warmed, openVars, lastCall, peer, wm, cmdVars, open,
                  inputValue, recentActivatedItemIDs, opening >>

\* pushRecentActivated (palette.ts 1069-1078)
pushRecentActivated(ids, itemID) ==
  IF itemID = 0 THEN ids ELSE PushFront(ids, itemID, 20)

\* activateSelection up to its first suspension (palette.ts 202-221); `from`
\* is a note carried by the suspended call and read by no action
ActivateSelectionFrom(intent, from) ==
  /\ warmed /\ open
  /\ selectedIndex + 1 \in DOMAIN results
  /\ LET result == results[selectedIndex + 1]
     IN  IF result.kind = "history"
         THEN /\ searchToken < MaxToken
              /\ inputValue' = result.query
              /\ UpdateResults(result.query)
              /\ UNCHANGED << hostVars, svcIndex, warmed, openVars, lastCall, peer, wm, cmdVars, open,
                              recentSearches, recentActivatedItemIDs, opening >>
         ELSE IF result.kind = "command"
         THEN /\ cmdCalls < MaxRuns
              /\ RunStart(result.commandId, "palette")
              /\ UNCHANGED << hostVars, svcVars, openVars, lastCall, peer, wm, palVars >>
         ELSE /\ opening' = opening \cup
                   { [ id |-> result.id, kind |-> result.kind, intent |-> intent,
                       from |-> from ] }
              /\ UNCHANGED << hostVars, svcVars, openVars, lastCall, peer, wm, cmdVars, searchToken,
                              results, displayMode, currentQuery, selectedIndex,
                              open, inputValue, recentSearches,
                              recentActivatedItemIDs, recentClosedAttachmentIDs,
                              lastOpenReaderIDs, shownToken, shownQuery,
                              lastQuery, discardedToken >>

ActivateSelection(intent) == ActivateSelectionFrom(intent, << >>)

\* a variant of RecordsOpen below that counts every activation as an open
RecordsOpen_Always(intent) == TRUE

\* the test of palette.ts 224: recordOpen is called unless the intent is reveal
RecordsOpen(intent) == intent # "reveal"

\* openResult resolves and activateSelection runs lines 222-227
OpenResolved(o) ==
  /\ o \in opening
  /\ opening' = opening \ { o }
  /\ OpenResultEffect(o)
  /\ recentActivatedItemIDs' = pushRecentActivated(recentActivatedItemIDs, o.id)
  /\ IF RecordsOpen(o.intent)
     THEN RecordOpenEffect(o.id)
     ELSE UNCHANGED << openVars, lastCall, peer, wm >>
  /\ recentSearches' = pushRecentSearch(recentSearches, currentQuery, displayMode)
  /\ open' = FALSE
  /\ UNCHANGED << store, libVer, now, activeLibraryID, win, prefResultsLimit,
                  svcVars, cmdVars, searchToken, results, displayMode,
                  currentQuery, selectedIndex, inputValue,
                  recentClosedAttachmentIDs, lastOpenReaderIDs, shownToken,
                  shownQuery, lastQuery, discardedToken >>

\* openResult rejects (revealInLibrary and getPrimaryAttachmentID await the
\* host outside any try): activateSelection rejects before line 222
OpenRejected(o) ==
  /\ o \in opening
  /\ opening' = opening \ { o }
  /\ UNCHANGED << hostVars, svcVars, openVars, lastCall, peer, wm, cmdVars, searchToken, results,
                  displayMode, currentQuery, selectedIndex, open, inputValue,
                  recentSearches, recentActivatedItemIDs,
                  recentClosedAttachmentIDs, lastOpenReaderIDs, shownToken,
                  shownQuery, lastQuery, discardedToken >>

(***************************************************************************)
(* Specification of the command palette: one regular item with a child     *)
(* note; the pane, its selection, the collection membership and the window *)
(* differ between the runs                                                 *)
(***************************************************************************)
CommandStore ==
  [ l \in Libraries |->
      IF l = 1 THEN << Item(1, "regular", 0, 1, << "p" >>),
                       Item(2, "note", 1, 1, << "n" >>),
                       Item(3, "note", 0, 1, << "m" >>) >>
      ELSE << >> ]

\* the pane is missing; or it is present with the child note or the
\* standalone note selected and item 1 in a collection; or nothing is selected
CommandPanes ==
  { [ present |-> FALSE, canEdit |-> FALSE, selectedItem |-> 0, inCollection |-> {} ] }
  \cup { [ present |-> TRUE, canEdit |-> TRUE, selectedItem |-> sel,
           inCollection |-> { 1 } ] : sel \in { 2, 3 } }
  \cup { [ present |-> TRUE, canEdit |-> TRUE, selectedItem |-> 0, inCollection |-> {} ] }

\* the user selects a library that is read-only, or one that is editable
SetEditable(canEdit) ==
  /\ pane.present
  /\ pane.canEdit # canEdit
  /\ pane' = [ pane EXCEPT !.canEdit = canEdit ]
  /\ UNCHANGED << store, libVer, now, activeLibraryID, tabs, selectedTab, win,
                  prefResultsLimit, svcVars, openVars, lastCall, peer, wm, cmdVars, palVars >>

CommandWindows ==
  { MainWindow,
    [ windowType |-> "zotero:reader", hrefHasNote |-> FALSE, hasReader |-> TRUE ] }

\* the ids run() is called with by callers other than the palette
RunIds == { "new-note", "open-collection", "unknown" }

Str_newNote == << "N", "e", "w", " ", "N", "o", "t", "e" >>

CommandQueries ==
  { << ">" >>, << ">" >> \o Str_newNote, << ">", " ", "c", "o", "p", "y" >> }

InitCommands ==
  /\ store = CommandStore
  /\ libVer = [ l \in Libraries |-> 0 ]
  /\ now = 0
  /\ activeLibraryID = 1
  /\ tabs = << >>
  /\ selectedTab = 0
  /\ pane \in CommandPanes
  /\ win \in (IF pane.present /\ pane.selectedItem = 2 THEN CommandWindows
                ELSE { MainWindow })
  /\ prefResultsLimit = 20
  /\ ServiceInit
  /\ CommandInit
  /\ PaletteInit

NextCommands ==
  \/ RegisterWindow
  \/ Show
  \/ \E q \in CommandQueries : TypeInput(q)
  \/ \E delta \in { -1, 1 } : MoveSelection(delta)
  \/ ActivateSelection("default")
  \/ \E commandId \in RunIds : RunCommand(commandId)
  \/ \E canEdit \in BOOLEAN : SetEditable(canEdit)
  \/ \E r \in cmdRuns : \E threw \in BOOLEAN : RunFinish(r, threw)

SpecCommands == InitCommands /\ [][NextCommands]_vars

CommandOf(commandId) ==
  CHOOSE c \in Range(createBuiltInCommands) : c.id = commandId

\* C6: every command a command search displays is enabled for the run
\* context of the search and declares the detected context, whatever the
\* query and the usage counts.
C6_OnlyAvailable ==
  [][(displayMode' = "command" /\ shownToken' # shownToken) =>
       \A i \in DOMAIN results' :
         LET runContext == getRunContext(store, pane, selectedTab, win)
         IN  /\ results'[i].kind = "command"
             /\ isAvailable(store, results'[i].commandId, runContext)
             /\ runContext.context \in CommandOf(results'[i].commandId).contexts]_vars

\* New Note has been run, the library has become read-only, the query is the
\* title of New Note, and the search displayed does not show it
C6_DisabledTitleMatchHidden ==
  /\ displayMode = "command"
  /\ shownToken = searchToken
  /\ currentQuery = Str_newNote
  /\ UsageOf(cmdUsage, "new-note") > 0
  /\ ~isAvailable(store, "new-note", getRunContext(store, pane, selectedTab, win))
  /\ \A i \in DOMAIN results : results[i].commandId # "new-note"

RecentStore ==
  [ l \in Libraries |->
      IF l = 1
      THEN << Item(1, "regular", 0, 1, << "p", "a" >>),
              Attachment(2, 1, 1, [ linkMode |-> "file",
                                    contentType |-> "application/pdf",
                                    isPDF |-> TRUE ], "none"),
              Item(3, "regular", 0, 1, << "p", "b" >>) >>
      ELSE << >> ]

RecentQueries == { << " ", " " >>, << "p" >> }

\* the user closes the tab at position i
CloseTab(i) ==
  /\ i \in DOMAIN tabs
  /\ tabs' = Take(tabs, i - 1) \o Drop(tabs, i)
  /\ selectedTab' = IF selectedTab = tabs[i].itemID THEN 0 ELSE selectedTab
  /\ UNCHANGED << store, libVer, now, activeLibraryID, pane, win,
                  prefResultsLimit, svcVars, openVars, lastCall, peer, wm, cmdVars, palVars >>

InitRecent ==
  /\ store = RecentStore
  /\ libVer = [ l \in Libraries |-> 0 ]
  /\ now = 0
  /\ activeLibraryID = 1
  /\ tabs \in { << >>, << [ type |-> "reader", itemID |-> 2 ] >> }
  /\ selectedTab = 0
  /\ pane = [ present |-> TRUE, canEdit |-> TRUE, selectedItem |-> 0,
              inCollection |-> {} ]
  /\ win = MainWindow
  /\ prefResultsLimit = 20
  /\ ServiceInit
  /\ CommandInit
  /\ PaletteInit

NextRecent ==
  \/ RegisterWindow
  \/ \E b \in builds : BuildNextLibrary(b)
  \/ \E b \in builds : BuildFinish(b)
  \/ Show
  \/ Hide
  \/ \E q \in RecentQueries : TypeInput(q)
  \/ \E delta \in { -1, 1 } : MoveSelection(delta)
  \/ \E intent \in { "default", "reveal" } : ActivateSelection(intent)
  \/ \E o \in opening : OpenResolved(o)
  \/ \E o \in opening : OpenRejected(o)
  \/ \E i \in DOMAIN tabs : CloseTab(i)

SpecRecent == InitRecent /\ [][NextRecent]_vars

IsBlank(query) == Trim(query) = << >>

\* C8: an updateResults call with an empty or whitespace-only query displays
\* the recent view: every row is a remembered search, an open tab, a recently
\* closed attachment or a recently activated item; the rows are never taken
\* from the index, and no document search is started for such a query.
C8_BlankQueryShowsRecents ==
  [][(searchToken' # searchToken /\ IsBlank(lastQuery')) =>
       /\ displayMode' = "recent"
       /\ shownToken' = searchToken'
       /\ builds' = builds
       /\ \A i \in DOMAIN results' :
            \/ /\ results'[i].kind = "history"
               /\ results'[i].query \in Range(recentSearches)
            \/ /\ results'[i].kind # "history"
               /\ results'[i].id \in
                    { tabs[j].itemID : j \in DOMAIN tabs }
                    \cup Range(recentClosedAttachmentIDs')
                    \cup Range(recentActivatedItemIDs)]_vars

\* a blank query is displayed over a built index: the view is not empty,
\* holds a remembered search and a record, and leaves out an entry of the index
C8_RecentsShown ==
  /\ IsBlank(lastQuery)
  /\ shownToken = searchToken
  /\ displayMode = "recent"
  /\ \E i \in DOMAIN results : results[i].kind = "history"
  /\ \E i \in DOMAIN results : results[i].kind # "history"
  /\ \E e \in Range(index) :
       \A i \in DOMAIN results : results[i].kind = "history" \/ results[i].id # e.id

(***************************************************************************)
(* Specification of filtered searches: three papers tagged {ai}, {AI, ml}, *)
(* {ml} and dated 2019, 2020, 2021, and a fourth paper whose tag and date  *)
(* vary (a date without a year, 2020)                                      *)
(***************************************************************************)
Str_ai == << "a", "i" >>
Str_ml == << "m", "l" >>

Paper(id, title, tags, date) ==
  [ Item(id, "regular", 0, 1, title) EXCEPT !.tags = tags, !.date = date ]

QueryStore(tags4, date4) ==
  [ l \in Libraries |->
      IF l = 1
      THEN << Paper(1, << "a", "b" >>, << Str_ai >>, << "2", "0", "1", "9" >>),
              Paper(2, << "b", "c" >>, << << "A", "I" >>, << "m", "l", " " >> >>,
                    << "2", "0", "2", "0", "-", "0", "5", "-", "0", "1" >>),
              Paper(3, << "c", "b" >>, << Str_ml >>, << "M", "a", "y", " ", "2", "0", "2", "1" >>),
              Paper(4, << "d", "b" >>, tags4, date4) >>
      ELSE << >> ]

QueryStores ==
  { QueryStore(tags4, date4) :
      tags4 \in { << >>, << Str_ai >> },
      date4 \in { << "n", ".", "d", "." >>, << "2", "0", "2", "0" >> } }

\* the queries typed, each with the tags and year bounds its tokens name
QueryCases ==
  {
    [ query |-> << "t", "a", "g", ":", "a", "i", " ", "t", "a", "g", ":", "m", "l" >>,
      tags |-> { << "a", "i" >>, << "m", "l" >> }, hasMin |-> FALSE, min |-> 0, hasMax |-> FALSE, max |-> 0 ],
    [ query |-> << "t", "a", "g", ":", "M", "L", " ", "b" >>,
      tags |-> { << "m", "l" >> }, hasMin |-> FALSE, min |-> 0, hasMax |-> FALSE, max |-> 0 ],
    [ query |-> << "y", "e", "a", "r", ":", "2", "0", "1", "9", "-", "2", "0", "2", "0" >>,
      tags |-> {  }, hasMin |-> TRUE, min |-> 2019, hasMax |-> TRUE, max |-> 2020 ],
    [ query |-> << "y", "e", "a", "r", ":", ">", "=", "2", "0", "2", "0" >>,
      tags |-> {  }, hasMin |-> TRUE, min |-> 2020, hasMax |-> FALSE, max |-> 0 ],
    [ query |-> << "y", "e", "a", "r", ":", "<", "2", "0", "2", "0" >>,
      tags |-> {  }, hasMin |-> FALSE, min |-> 0, hasMax |-> TRUE, max |-> 2020 ]
  }

QueryInputs == { c.query : c \in QueryCases }

InitQuery ==
  /\ \E st \in QueryStores : HostInit(st)
  /\ ServiceInit
  /\ CommandInit
  /\ PaletteInit

NextQuery ==
  \/ RegisterWindow
  \/ \E b \in builds : BuildNextLibrary(b)
  \/ \E b \in builds : BuildFinish(b)
  \/ Show
  \/ \E q \in QueryInputs : TypeInput(q)

SpecQuery == InitQuery /\ [][NextQuery]_vars

\* a filtered search is on display
SearchShown(q) ==
  displayMode = "search" /\ shownToken = searchToken /\ shownQuery = q

ShownIds == { results[i].id : i \in DOMAIN results }

EntryOf(id) == CHOOSE e \in Range(index) : e.id = id

\* C9: every entry a search with tag: tokens returns carries every one of the
\* named tags, compared lower-cased and trimmed; over entries tagged {ai},
\* {ai, ml}, {ml}, the query `tag:ai tag:ml` returns the {ai, ml} entry alone.
C9_TagsConjunctive ==
  \A c \in QueryCases :
    SearchShown(c.query) =>
      /\ \A id \in ShownIds :
           /\ \E e \in Range(index) : e.id = id
           /\ c.tags \subseteq Range(EntryOf(id).tags)
      /\ c.query = << "t", "a", "g", ":", "a", "i", " ", "t", "a", "g", ":", "m", "l" >> => ShownIds = { 2 }

\* `tag:ai tag:ml` is on display over entries tagged {ai}, {ai, ml}, {ml}: the
\* {ai, ml} entry is shown and the other two are not
C9_OnlyBothTagsShown ==
  /\ SearchShown(<< "t", "a", "g", ":", "a", "i", " ", "t", "a", "g", ":", "m", "l" >>)
  /\ \E e \in Range(index) : Range(e.tags) = { Str_ai }
  /\ \E e \in Range(index) : Range(e.tags) = { Str_ml }
  /\ \E i \in DOMAIN results : Range(results[i].tags) = { Str_ai, Str_ml }
  /\ Len(results) = 1

\* C10: every entry a search with a year filter returns has a year, not below
\* the lower bound and not above the upper bound when that bound is given;
\* `year:2019-2020` returns exactly the entries whose year is 2019 or 2020.
C10_YearInclusive ==
  \A c \in QueryCases :
    SearchShown(c.query) =>
      /\ \A i \in DOMAIN results :
           /\ c.hasMin => (results[i].year # NullYear /\ results[i].year >= c.min)
           /\ c.hasMax => (results[i].year # NullYear /\ results[i].year <= c.max)
      /\ c.query = << "y", "e", "a", "r", ":", "2", "0", "1", "9", "-", "2", "0", "2", "0" >> =>
           ShownIds = { e.id : e \in { x \in Range(index) : x.year \in { 2019, 2020 } } }

\* `year:2019-2020` is on display over entries of 2019, 2020, 2021 and an entry
\* without a year: the first two are shown, the other two are not
C10_BoundsShown ==
  /\ SearchShown(<< "y", "e", "a", "r", ":", "2", "0", "1", "9", "-", "2", "0", "2", "0" >>)
  /\ \E e \in Range(index) : e.year = 2021
  /\ \E e \in Range(index) : e.year = NullYear
  /\ { results[i].year : i \in DOMAIN results } = { 2019, 2020 }
  /\ Len(results) = 2

(***************************************************************************)
(* Specification of direct fuzzyScore calls: one call per run, on every    *)
(* pair of strings up to MaxFuzzyLen over letters of both cases, the space *)
(* and a boundary character, or one query scored against two haystacks     *)
(***************************************************************************)
MaxFuzzyLen == 3

FuzzyAlphabet == { "a", "A", " ", "-" }

FuzzyStrings == UNION { [ 1 .. k -> FuzzyAlphabet ] : k \in 0 .. MaxFuzzyLen }

Str_myPdfNotes == << "m", "y", " ", "p", "d", "f", " ", "n", "o", "t", "e", "s" >>
Str_pdfSeparated == << "p", "-", "d", "-", "f", " ", "s", "e", "p", "a", "r", "a", "t", "e", "d" >>

FuzzyQueries == { Str_pdf, << "P", "D", "F", " " >> }

FuzzyHaystacks ==
  { Str_myPdfNotes, Str_pdfSeparated, << "M", "y", " ", " ", "P", "D", "F" >>,
    Str_pdf, << "x", "p", "x", "d", "x", "f" >> }

EmptyStore == [ l \in Libraries |-> << >> ]

InitCall ==
  /\ HostInit(EmptyStore)
  /\ ServiceInit
  /\ CommandInit
  /\ PaletteInit

\* fuzzyScore(query, text) called once
CallFuzzyScore(query, text) ==
  /\ lastCall.fn = "none"
  /\ lastCall' = [ fn |-> "fuzzyScore", args |-> << query, text >>,
                   result |-> fuzzyScore(query, text) ]
  /\ UNCHANGED << hostVars, svcVars, openVars, peer, wm, cmdVars, palVars >>

\* fuzzyScore(query, text1) and fuzzyScore(query, text2), compared by the caller
CompareFuzzyScores(query, text1, text2) ==
  /\ lastCall.fn = "none"
  /\ lastCall' = [ fn |-> "fuzzyScore twice", args |-> << query, text1, text2 >>,
                   result |-> << fuzzyScore(query, text1), fuzzyScore(query, text2) >> ]
  /\ UNCHANGED << hostVars, svcVars, openVars, peer, wm, cmdVars, palVars >>

NextFuzzy ==
  \/ /\ lastCall.fn = "none"
     /\ \E query \in FuzzyStrings, text \in FuzzyStrings : CallFuzzyScore(query, text)
  \/ /\ lastCall.fn = "none"
     /\ \E query \in FuzzyQueries, text1 \in FuzzyHaystacks, text2 \in FuzzyHaystacks :
          CompareFuzzyScores(query, text1, text2)

SpecFuzzy == InitCall /\ [][NextFuzzy]_vars

\* q's characters occur in t in order
RECURSIVE IsSubsequenceFrom(_, _, _)
IsSubsequenceFrom(q, t, from) ==
  IF q = << >> THEN TRUE
  ELSE LET found == { k \in from .. Len(t) : t[k] = Head(q) }
       IN  IF found = {} THEN FALSE
           ELSE IsSubsequenceFrom(Tail(q), t,
                                  (CHOOSE k \in found : \A j \in found : k <= j) + 1)

IsSubsequence(q, t) == IsSubsequenceFrom(q, t, 1)

\* q occurs in t as a block
IsSubstring(q, t) ==
  \E i \in 0 .. Len(t) - Len(q) : SubSeq(t, i + 1, i + Len(q)) = q

\* C11 as stated: for every query Q and haystack H, fuzzyScore(Q, H) is positive
\* when Q is a subsequence of H and negative when it is not.
C11_SubsequenceIffPositive ==
  lastCall.fn = "fuzzyScore" =>
    /\ IsSubsequence(lastCall.args[1], lastCall.args[2]) => lastCall.result > 0
    /\ ~IsSubsequence(lastCall.args[1], lastCall.args[2]) => lastCall.result < 0

\* C11 amended: with both strings lower-cased, whitespace-collapsed and trimmed,
\* fuzzyScore(Q, H) is positive when the query is not empty and is a
\* subsequence of the haystack, and is negative (-1) in every other case, the
\* empty query included.
C11_NormalizedSubsequenceIffPositive ==
  lastCall.fn = "fuzzyScore" =>
    LET q == normalize(lastCall.args[1])
        t == normalize(lastCall.args[2])
    IN  IF q # << >> /\ IsSubsequence(q, t)
        THEN lastCall.result > 0
        ELSE lastCall.result = -1

\* a query that differs from the haystack in case and is scattered over it
\* has been scored, and the score is positive
C11_ScatteredMatchScored ==
  /\ lastCall.fn = "fuzzyScore"
  /\ lastCall.args = << << "a", "a" >>, << "A", "-", "a" >> >>
  /\ lastCall.result > 0

(***************************************************************************)
(* Specification of ranking: papers "ab" and "cd" in the active library,   *)
(* "ab" and "acd" in a second one; recordOpen calls build up usage counts  *)
(* and the recency queue while free-text queries are typed                 *)
(***************************************************************************)
RankStore ==
  [ l \in Libraries |->
      IF l = 1 THEN << Item(1, "regular", 0, 1, << "a", "b" >>),
                       Item(2, "regular", 0, 1, << "c", "d" >>) >>
      ELSE IF l = 2 THEN << Item(3, "regular", 0, 2, << "a", "b" >>),
                            Item(4, "regular", 0, 2, << "a", "c", "d" >>) >>
      ELSE << >> ]

\* the papers recordOpen is called with
RankIds == { 1, 2 }

\* the queries typed, each with the free text it carries
RankCases ==
  { [ query |-> << "a" >>, text |-> << "a" >> ],
    [ query |-> << " ", "C", "d" >>, text |-> << "c", "d" >> ],
    [ query |-> << "a", "b" >>, text |-> << "a", "b" >> ] }

InitRank ==
  /\ HostInit(RankStore)
  /\ ServiceInit
  /\ CommandInit
  /\ PaletteInit

NextRank ==
  \/ RegisterWindow
  \/ \E b \in builds : BuildNextLibrary(b)
  \/ \E b \in builds : BuildFinish(b)
  \/ Show
  \/ \E c \in RankCases : TypeInput(c.query)
  \/ \E itemID \in RankIds : RecordOpen(itemID)

SpecRank == InitRank /\ [][NextRank]_vars

\* C12: every entry a free-text search displays has the query's characters,
\* in order, in its searchText; usage count, recency and library never bring
\* in an entry that lacks them.
C12_NonMatchNeverShown ==
  \A c \in RankCases :
    SearchShown(c.query) =>
      \A id \in ShownIds :
        /\ \E e \in Range(index) : e.id = id
        /\ IsSubsequence(c.text, EntryOf(id).searchText)

\* "ab" is on display, searched after paper 1 was opened once and the paper
\* "cd" of the active library twice (the score of paper 1 carries its second
\* place in the recency queue): "cd" heads the queue and is not among the results
C12_BoostedNonMatchLeftOut ==
  /\ SearchShown(<< "a", "b" >>)
  /\ UsageOf(usageCounts, 2) = 2
  /\ recentItemIDs = << 2, 1 >>
  /\ activeLibraryID = 1
  /\ \E e \in Range(index) : e.id = 2
  /\ ShownIds = { 1, 3 }
  /\ \E i \in DOMAIN results :
       /\ results[i].id = 1
       /\ results[i].score = fuzzyScore(<< "a", "b" >>, << "a", "b" >>) + 3 + 7 + 6

(***************************************************************************)
(* Specification of the two modes of the palette: papers "new note" and    *)
(* "copy" and a note; inputs with ">" in front, behind leading blanks, in  *)
(* the middle and absent, some of them carrying filter tokens              *)
(***************************************************************************)
ModeStore ==
  [ l \in Libraries |->
      IF l = 1 THEN << Item(1, "regular", 0, 1, << "n", "e", "w", " ", "n", "o", "t", "e" >>),
                       Item(2, "regular", 0, 1, << "c", "o", "p", "y" >>),
                       [ Item(3, "note", 0, 1, << >>) EXCEPT !.note = << "n" >> ] >>
      ELSE << >> ]

\* the inputs typed: whether ">" leads them once leading blanks are removed,
\* and what follows the ">"
ModeCases ==
  {
    [ query |-> << " ", " ", ">", " ", "n", "e", "w" >>,
      command |-> TRUE, rest |-> << "n", "e", "w" >> ],
    [ query |-> << ">", "t", "y", "p", "e", ":", "n", "o", "t", "e" >>,
      command |-> TRUE, rest |-> << "t", "y", "p", "e", ":", "n", "o", "t", "e" >> ],
    [ query |-> << ">" >>,
      command |-> TRUE, rest |-> <<  >> ],
    [ query |-> << "n", "e", "w" >>,
      command |-> FALSE, rest |-> <<  >> ],
    [ query |-> << "n", " ", ">" >>,
      command |-> FALSE, rest |-> <<  >> ],
    [ query |-> << "t", "y", "p", "e", ":", "n", "o", "t", "e" >>,
      command |-> FALSE, rest |-> <<  >> ]
  }

InitMode ==
  /\ HostInit(ModeStore)
  /\ ServiceInit
  /\ CommandInit
  /\ PaletteInit

\* the user selects a paper in the items list, or clears the selection
SelectItem(itemID) ==
  /\ pane.present
  /\ pane.selectedItem # itemID
  /\ pane' = [ pane EXCEPT !.selectedItem = itemID ]
  /\ UNCHANGED << store, libVer, now, activeLibraryID, tabs, selectedTab, win,
                  prefResultsLimit, svcVars, openVars, lastCall, peer, wm, cmdVars, palVars >>

NextMode ==
  \/ RegisterWindow
  \/ \E b \in builds : BuildNextLibrary(b)
  \/ \E b \in builds : BuildFinish(b)
  \/ Show
  \/ \E c \in ModeCases : TypeInput(c.query)
  \/ \E itemID \in { 0, 1 } : SelectItem(itemID)

SpecMode == InitMode /\ [][NextMode]_vars

\* the results of the latest updateResults call, made with input q, are on display
Displayed(q) == shownToken = searchToken /\ shownQuery = q

\* the commands of a run context whose title and keywords contain the
\* characters of text in order (every command when text is empty)
CommandsMatching(text, runContext) ==
  { c.id : c \in { k \in Range(createBuiltInCommands) :
      /\ runContext.context \in k.contexts
      /\ isAvailable(store, k.id, runContext)
      /\ IsSubsequence(normalize(text), CommandSearchText(k)) } }

\* C14: an input whose first character after leading blanks is ">" displays
\* commands only, those matching the rest of the input taken as plain text,
\* filter tokens included; every other input displays no command.
C14_CommandModeByLeadingMarker ==
  [][\A c \in ModeCases :
       (Displayed(c.query)' /\ (shownToken' # shownToken)) =>
         IF c.command
         THEN /\ displayMode' = "command"
              /\ \A i \in DOMAIN results' : results'[i].kind = "command"
              /\ { results'[i].commandId : i \in DOMAIN results' }
                   = CommandsMatching(c.rest, getRunContext(store, pane, selectedTab, win))
         ELSE /\ displayMode' # "command"
              /\ \A i \in DOMAIN results' : results'[i].kind # "command"]_vars

\* ">type:note" is on display with no result although commands are available
\* and the index holds a note: the token was matched as text against the
\* commands, not applied as a filter
C14_FilterTokenIsCommandText ==
  /\ Displayed(<< ">", "t", "y", "p", "e", ":", "n", "o", "t", "e" >>)
  /\ displayMode = "command"
  /\ results = << >>
  /\ CommandsMatching(<< >>, getRunContext(store, pane, selectedTab, win)) # {}
  /\ \E e \in Range(index) : e.resultType = "note"

(***************************************************************************)
(* Specification of direct calls of SearchService.search on a fresh index, *)
(* with limits below, at and above the number of matches, after opens      *)
(* that change the usage counts and the recency queue                      *)
(***************************************************************************)
\* the queries of the calls, each with the free text it carries
SortCases ==
  { [ query |-> << >>, text |-> << >> ],
    [ query |-> << "a" >>, text |-> << "a" >> ],
    [ query |-> << "a", "b" >>, text |-> << "a", "b" >> ] }

\* the limits of the calls
SortLimits == { 0, 1, 3, 20 }

\* the papers recordOpen is called with before the calls
SortIds == { 1, 2, 3, 4 }

\* search(query, win, limit) (search.ts 83-121) called while the index is fresh:
\* ensureIndex returns without building
CallSearch(query, limit) ==
  /\ IndexFresh(indexReady, indexStale, lastIndexedAt, now)
  /\ lastCall' = [ fn |-> "search", args |-> << query, limit >>,
                   result |-> SearchResults(query, activeLibraryID, index,
                                            usageCounts, recentItemIDs, limit) ]
  /\ UNCHANGED << hostVars, svcVars, openVars, peer, wm, cmdVars, palVars >>

NextSort ==
  \/ RegisterWindow
  \/ \E b \in builds : BuildNextLibrary(b)
  \/ \E b \in builds : BuildFinish(b)
  \/ \E itemID \in SortIds : RecordOpen(itemID)
  \/ /\ lastCall.fn = "none"
     /\ \E c \in SortCases, limit \in SortLimits : CallSearch(c.query, limit)

SpecSort == InitRank /\ [][NextSort]_vars

\* the total score of the index entry at position i for free text `text`,
\* and the positions of the entries that match it
TotalScoreAt(i, text) ==
  (IF text = << >> THEN 10 ELSE fuzzyScore(text, index[i].searchText))
  + UsageOf(usageCounts, index[i].id) * 3
  + getRecencyBoost(recentItemIDs, index[i].id)
  + (IF activeLibraryID # 0 /\ activeLibraryID = index[i].libraryID THEN 6 ELSE 0)

MatchingAt(text) ==
  { i \in DOMAIN index :
      text = << >> \/ fuzzyScore(text, index[i].searchText) > 0 }

\* res holds, for each of its elements, the position in the index it came from
SortedCut(res, pos, text, limit) ==
  /\ Len(res) = Min2(limit, Cardinality(MatchingAt(text)))
  /\ \A k \in DOMAIN res :
       /\ pos[k] \in MatchingAt(text)
       /\ res[k].id = index[pos[k]].id
       /\ res[k].score = TotalScoreAt(pos[k], text)
  /\ \A k, l \in DOMAIN res :
       k < l => /\ pos[k] # pos[l]
                /\ res[k].score >= res[l].score
                /\ res[k].score = res[l].score => pos[k] < pos[l]
  /\ \A i \in MatchingAt(text) \ { pos[k] : k \in DOMAIN res } :
       \A k \in DOMAIN res : TotalScoreAt(i, text) <= res[k].score

\* C15: search returns min(limit, number of matching entries) results, each a
\* matching entry with its total score, in non-increasing order of score, the
\* entries of equal score in index order, and no matching entry left out has
\* a score above that of a returned one.
C15_SortedTruncatedStable ==
  [][\A c \in SortCases, limit \in SortLimits :
       (lastCall.fn = "none" /\ lastCall'.fn = "search"
          /\ lastCall'.args = << c.query, limit >>) =>
         \E pos \in [ DOMAIN lastCall'.result -> DOMAIN index ] :
           SortedCut(lastCall'.result, pos, c.text, limit)]_vars

\* search("", win, 3) returned after paper 2 was opened once: paper 2 comes
\* before paper 1, paper 3 takes the last place and paper 4, of the same score
\* and later in the index, is cut off
C15_TieCutAtLimit ==
  /\ lastCall.fn = "search"
  /\ lastCall.args = << << >>, 3 >>
  /\ Len(lastCall.result) = 3
  /\ [ k \in 1 .. 3 |-> lastCall.result[k].id ] = << 2, 1, 3 >>
  /\ [ k \in 1 .. 3 |-> lastCall.result[k].score ] = << 27, 16, 10 >>
  /\ [ i \in DOMAIN index |-> index[i].id ] = << 1, 2, 3, 4 >>

(***************************************************************************)
(* Specification of the freshness gate: the clock read by ensureIndex      *)
(* stands just below, at and just above five minutes after the first       *)
(* build; records change; the palette searches                             *)
(***************************************************************************)
\* the times Date.now() moves to
GateTimes == { 299999, 300000, 300001 }

GateQuery == << "a" >>

\* the records of library 1 after the change made to them
GateRecords == << Item(1, "regular", 0, 1, << "a" >>) >>

\* the clock advances to t
AdvanceTo(t) ==
  /\ now < t
  /\ now' = t
  /\ UNCHANGED << store, libVer, activeLibraryID, tabs, selectedTab, pane, win,
                  prefResultsLimit, svcVars, openVars, lastCall, peer, wm, cmdVars, palVars >>

NextGate ==
  \/ RegisterWindow
  \/ Show
  \/ TypeInput(GateQuery)
  \/ \E b \in builds : BuildNextLibrary(b)
  \/ \E b \in builds : BuildFinish(b)
  \/ ItemChange(1, GateRecords)
  \/ \E t \in GateTimes : AdvanceTo(t)

SpecGate == InitLifecycle /\ [][NextGate]_vars

\* the step is a warmIndex call, or a search call made by updateResults
WarmIndexCalled == ~warmed /\ warmed'
SearchCalled == searchToken' = searchToken + 1 /\ lastQuery' = GateQuery

\* the step starts a build, with the time read at the start of ensureIndex
BuildStarted == \E b \in builds' \ builds : b.nextLib = 1 /\ b.nowAt = now

\* the step leaves the index alone and, for a search, displays entries of it
IndexReused ==
  /\ builds' = builds
  /\ << index, indexReady, indexStale, lastIndexedAt >>'
       = << index, indexReady, indexStale, lastIndexedAt >>
  /\ SearchCalled =>
       /\ shownToken' = searchToken'
       /\ displayMode' = "search"
       /\ \A i \in DOMAIN results' : \E e \in Range(index) : e.id = results'[i].id

\* C16: a search or warmIndex call starts a build when the index was never
\* built, or is marked stale, or 300000 ms or more lie between the time of the
\* last build and the call; otherwise it starts none and uses the index as it is.
C16_FreshnessGate ==
  [][(WarmIndexCalled \/ SearchCalled) =>
       IF ~indexReady \/ indexStale \/ now - lastIndexedAt >= 300000
       THEN BuildStarted
       ELSE IndexReused]_vars

\* a search made exactly 300000 ms after the build of an index that is not
\* marked stale has started a build
C16_RebuildAtFiveMinutes ==
  /\ indexReady /\ ~indexStale
  /\ lastIndexedAt = 0
  /\ now = 300000
  /\ \E b \in builds : b.token = searchToken /\ b.token > 0 /\ b.nowAt = 300000

(***************************************************************************)
(* Specification of direct calls of parseStructuredQuery and of search     *)
(* with quoted phrases, several year: tokens and malformed filter tokens   *)
(***************************************************************************)
Str_deepLearning == << "d", "e", "e", "p", " ", "l", "e", "a", "r", "n", "i", "n", "g" >>

ParseStore ==
  [ l \in Libraries |->
      IF l = 1
      THEN << Paper(1, << "a", "b" >>, << >>, << "2", "0", "1", "9" >>),
              Paper(2, << "b", "c" >>, << >>, << "2", "0", "2", "0" >>),
              Paper(3, << "c", "b" >>, << >>, << "2", "0", "2", "1" >>),
              Paper(4, Str_deepLearning, << >>, << "n", ".", "d", "." >>),
              [ Item(5, "note", 0, 1, << >>) EXCEPT !.note = << "b" >> ],
              Attachment(6, 0, 1, [ linkMode |-> "file",
                                    contentType |-> "application/pdf",
                                    isPDF |-> TRUE ], "none") >>
      ELSE << >> ]

\* queries with a phrase in double quotes
PhraseCases ==
  {
    [ query |-> << "\"", "d", "e", "e", "p", " ", "l", "e", "a", "r", "n", "i", "n", "g", "\"" >>,
      phrase |-> << "d", "e", "e", "p", " ", "l", "e", "a", "r", "n", "i", "n", "g" >> ],
    [ query |-> << "t", "a", "g", ":", "x", " ", "\"", "d", "e", "e", "p", " ", "l", "e", "a", "r", "n", "i", "n", "g", "\"" >>,
      phrase |-> << "d", "e", "e", "p", " ", "l", "e", "a", "r", "n", "i", "n", "g" >> ]
  }

\* queries with several year: tokens: the largest lower bound and the smallest
\* upper bound they give, and the papers of ParseStore dated within both
YearCases ==
  {
    [ query |-> << "y", "e", "a", "r", ":", ">", "=", "2", "0", "1", "9", " ", "y", "e", "a", "r", ":", "<", "=", "2", "0", "2", "0" >>,
      min |-> 2019, max |-> 2020, ids |-> { 1, 2 } ],
    [ query |-> << "y", "e", "a", "r", ":", "<", "=", "2", "0", "2", "0", " ", "y", "e", "a", "r", ":", ">", "=", "2", "0", "1", "9" >>,
      min |-> 2019, max |-> 2020, ids |-> { 1, 2 } ],
    [ query |-> << "y", "e", "a", "r", ":", "2", "0", "1", "9", "-", "2", "0", "2", "1", " ", "y", "e", "a", "r", ":", "2", "0", "2", "0", "-", "2", "0", "2", "2" >>,
      min |-> 2020, max |-> 2021, ids |-> { 2, 3 } ],
    [ query |-> << "y", "e", "a", "r", ":", "2", "0", "2", "0", "-", "2", "0", "2", "2", " ", "y", "e", "a", "r", ":", "2", "0", "1", "9", "-", "2", "0", "2", "1" >>,
      min |-> 2020, max |-> 2021, ids |-> { 2, 3 } ],
    [ query |-> << "y", "e", "a", "r", ":", "2", "0", "2", "1", " ", "y", "e", "a", "r", ":", "2", "0", "1", "9" >>,
      min |-> 2021, max |-> 2019, ids |-> {} ],
    [ query |-> << "y", "e", "a", "r", ":", "2", "0", "1", "9", " ", "y", "e", "a", "r", ":", "2", "0", "2", "1" >>,
      min |-> 2021, max |-> 2019, ids |-> {} ],
    [ query |-> << "y", "e", "a", "r", ":", ">", "2", "0", "1", "8", " ", "y", "e", "a", "r", ":", ">", "2", "0", "2", "0", " ", "y", "e", "a", "r", ":", ">", "2", "0", "1", "9" >>,
      min |-> 2020, max |-> Undefined, ids |-> { 2, 3 } ]
  }

\* queries with malformed filter tokens: the same query without them, and the
\* filters and free text that remain
MalformedCases ==
  {
    [ query |-> << "t", "y", "p", "e", ":", "f", "o", "o" >>,
      same |-> << >>,
      types |-> {}, min |-> Undefined, max |-> Undefined, text |-> << >> ],
    [ query |-> << "t", "y", "p", "e", ":", "f", "o", "o", "|", "b", "a", "r", " ", "b" >>,
      same |-> << "b" >>,
      types |-> {}, min |-> Undefined, max |-> Undefined, text |-> << "b" >> ],
    [ query |-> << "y", "e", "a", "r", ":", "a", "b", "c", " ", "b" >>,
      same |-> << "b" >>,
      types |-> {}, min |-> Undefined, max |-> Undefined, text |-> << "b" >> ],
    [ query |-> << "y", "e", "a", "r", ":", "2", "0", " ", "t", "y", "p", "e", ":", "n", "o", "t", "e" >>,
      same |-> << "t", "y", "p", "e", ":", "n", "o", "t", "e" >>,
      types |-> { "note" }, min |-> Undefined, max |-> Undefined, text |-> << >> ],
    [ query |-> << "t", "y", "p", "e", ":", "f", "o", "o", "|", "p", "d", "f" >>,
      same |-> << "t", "y", "p", "e", ":", "p", "d", "f" >>,
      types |-> { "pdf" }, min |-> Undefined, max |-> Undefined, text |-> << >> ],
    [ query |-> << "t", "y", "p", "e", ":", "P", "D", "F", "|", "x", "|", "n", "o", "t", "e", " ", "y", "e", "a", "r", ":", "2", "0", "2", "0", "-", "2", "1" >>,
      same |-> << "t", "y", "p", "e", ":", "p", "d", "f", "|", "n", "o", "t", "e" >>,
      types |-> { "pdf", "note" }, min |-> Undefined, max |-> Undefined, text |-> << >> ],
    [ query |-> << "y", "e", "a", "r", ":", ">", "=", "2", "0", "x", "0", " ", "y", "e", "a", "r", ":", "2", "0", "2", "0" >>,
      same |-> << "y", "e", "a", "r", ":", "2", "0", "2", "0" >>,
      types |-> {}, min |-> 2020, max |-> 2020, text |-> << >> ]
  }

\* queries with one comparison: the bounds it gives and the papers of
\* ParseStore (dated 2019, 2020, 2021) it lets through
BoundCases ==
  {
    [ query |-> << "y", "e", "a", "r", ":", ">", "2", "0", "2", "0" >>,
      min |-> 2020, max |-> Undefined, ids |-> { 2, 3 } ],
    [ query |-> << "y", "e", "a", "r", ":", ">", "=", "2", "0", "2", "0" >>,
      min |-> 2020, max |-> Undefined, ids |-> { 2, 3 } ],
    [ query |-> << "y", "e", "a", "r", ":", "<", "2", "0", "2", "0" >>,
      min |-> Undefined, max |-> 2020, ids |-> { 1, 2 } ],
    [ query |-> << "y", "e", "a", "r", ":", "<", "=", "2", "0", "2", "0" >>,
      min |-> Undefined, max |-> 2020, ids |-> { 1, 2 } ]
  }

\* every string of at most MaxParseLen characters that have a meaning to the parser
MaxParseLen == 3
ParseAlphabet == { Quote, ":", "|", " ", "y" }
ParseStrings == UNION { [ 1 .. k -> ParseAlphabet ] : k \in 0 .. MaxParseLen }

ParseInputs ==
  { c.query : c \in PhraseCases \cup YearCases \cup MalformedCases \cup BoundCases }
  \cup ParseStrings

\* the queries search is called with, and the limit of the calls
SearchInputs == { c.query : c \in PhraseCases \cup YearCases \cup BoundCases }
ParseLimit == 20

InitParse ==
  /\ HostInit(ParseStore)
  /\ ServiceInit
  /\ CommandInit
  /\ PaletteInit

\* parseStructuredQuery(rawQuery) (search.ts 431-483)
CallParseStructuredQuery(rawQuery) ==
  /\ lastCall' = [ fn |-> "parseStructuredQuery", args |-> << rawQuery >>,
                   result |-> parseStructuredQuery(rawQuery) ]
  /\ UNCHANGED << hostVars, svcVars, openVars, peer, wm, cmdVars, palVars >>

\* search(query1, win, limit) and search(query2, win, limit) on the same fresh
\* index, compared by the caller
CompareSearches(query1, query2, limit) ==
  /\ IndexFresh(indexReady, indexStale, lastIndexedAt, now)
  /\ lastCall' = [ fn |-> "search twice", args |-> << query1, query2, limit >>,
                   result |-> << SearchResults(query1, activeLibraryID, index,
                                               usageCounts, recentItemIDs, limit),
                                 SearchResults(query2, activeLibraryID, index,
                                               usageCounts, recentItemIDs, limit) >> ]
  /\ UNCHANGED << hostVars, svcVars, openVars, peer, wm, cmdVars, palVars >>

NextParse ==
  \/ RegisterWindow
  \/ \E b \in builds : BuildNextLibrary(b)
  \/ \E b \in builds : BuildFinish(b)
  \/ /\ lastCall.fn = "none"
     /\ \E rawQuery \in ParseInputs : CallParseStructuredQuery(rawQuery)
  \/ /\ lastCall.fn = "none"
     /\ \E query \in SearchInputs : CallSearch(query, ParseLimit)
  \/ /\ lastCall.fn = "none"
     /\ \E c \in MalformedCases : CompareSearches(c.query, c.same, ParseLimit)

SpecParse == InitParse /\ [][NextParse]_vars

Parsed(rawQuery) ==
  lastCall.fn = "parseStructuredQuery" /\ lastCall.args = << rawQuery >>

Searched(query) ==
  lastCall.fn = "search" /\ lastCall.args = << query, ParseLimit >>

IdsOf(res) == { res[i].id : i \in DOMAIN res }

\* C17: for a query with a phrase in double quotes, the free text handed to
\* the fuzzy matcher contains the phrase and no quote character, and the
\* paper whose title is the phrase is found.
C17_QuotedPhraseUnquoted ==
  \A c \in PhraseCases :
    /\ Parsed(c.query) =>
         /\ IsSubstring(c.phrase, lastCall.result.textQuery)
         /\ Quote \notin Range(lastCall.result.textQuery)
    /\ Searched(c.query) => 4 \in IdsOf(lastCall.result)

\* C18: several year: tokens give as yearMin the largest lower bound and as
\* yearMax the smallest upper bound, in whatever order they stand; search
\* returns the entries dated within both, none when yearMin > yearMax.
C18_YearTokensIntersect ==
  \A c \in YearCases :
    /\ Parsed(c.query) =>
         /\ lastCall.result.filters.yearMin = c.min
         /\ lastCall.result.filters.yearMax = c.max
    /\ Searched(c.query) => IdsOf(lastCall.result) = c.ids

\* search("year:2021 year:2019") returned nothing from an index that holds
\* papers of 2019 and of 2021
C18_EmptyIntersectionSearched ==
  /\ Searched(<< "y", "e", "a", "r", ":", "2", "0", "2", "1", " ", "y", "e", "a", "r", ":", "2", "0", "1", "9" >>)
  /\ lastCall.result = << >>
  /\ \E e \in Range(index) : e.year = 2019
  /\ \E e \in Range(index) : e.year = 2021

\* the result of a parseStructuredQuery call is a ParsedQuery
IsParsedQuery(r) ==
  /\ DOMAIN r = { "textQuery", "filters" }
  /\ r.textQuery = Trim(r.textQuery)
  /\ r.filters.types \subseteq { "item", "note", "pdf" }
  /\ \A i \in DOMAIN r.filters.tags : r.filters.tags[i] # << >>
  /\ r.filters.yearMin \in { Undefined } \cup 0 .. 9999
  /\ r.filters.yearMax \in { Undefined } \cup 0 .. 9999

\* C19: parseStructuredQuery returns a ParsedQuery for every input; a type:
\* token with no recognized value and a year: token that cannot be read leave
\* the filters as they were and add nothing to the free text, a recognized
\* type next to an unrecognized one is kept, and search returns what it
\* returns for the query without the malformed parts.
C19_MalformedFiltersDropped ==
  /\ lastCall.fn = "parseStructuredQuery" => IsParsedQuery(lastCall.result)
  /\ \A c \in MalformedCases :
       /\ Parsed(c.query) =>
            /\ lastCall.result.filters.types = c.types
            /\ lastCall.result.filters.tags = << >>
            /\ lastCall.result.filters.yearMin = c.min
            /\ lastCall.result.filters.yearMax = c.max
            /\ lastCall.result.textQuery = c.text
       /\ (lastCall.fn = "search twice"
             /\ lastCall.args = << c.query, c.same, ParseLimit >>) =>
            lastCall.result[1] = lastCall.result[2]

\* search("type:foo|pdf") and search("type:pdf") both returned the PDF alone
\* from an index that holds papers and a note as well
C19_RecognizedTypeKept ==
  /\ lastCall.fn = "search twice"
  /\ lastCall.args = << << "t", "y", "p", "e", ":", "f", "o", "o", "|", "p", "d", "f" >>,
                        << "t", "y", "p", "e", ":", "p", "d", "f" >>, ParseLimit >>
  /\ IdsOf(lastCall.result[1]) = { 6 }
  /\ lastCall.result[1] = lastCall.result[2]
  /\ { e.resultType : e \in Range(index) } = { "item", "note", "pdf" }

(***************************************************************************)
(* Properties of the substring bonus, checked under SpecFuzzy              *)
(***************************************************************************)
\* the haystacks of the compared calls: whether "pdf" stands in them as one
\* piece once they are normalized, and the score of "pdf" against them
\* (walk + substring bonus + length closeness)
FuzzyCases ==
  { [ text |-> Str_myPdfNotes, contiguous |-> TRUE, score |-> 17 + 8 + 1 ],
    [ text |-> << "M", "y", " ", " ", "P", "D", "F" >>, contiguous |-> TRUE,
      score |-> 17 + 8 + 7 ],
    [ text |-> Str_pdf, contiguous |-> TRUE, score |-> 24 + 8 + 10 ],
    [ text |-> Str_pdfSeparated, contiguous |-> FALSE, score |-> 17 + 0 + 0 ],
    [ text |-> << "x", "p", "x", "d", "x", "f" >>, contiguous |-> FALSE,
      score |-> 3 + 0 + 7 ] }

\* what a score holds beyond the walk and the length closeness
BonusIn(score, query, text) ==
  LET q == normalize(query)
      t == normalize(text)
  IN  score - FuzzyWalk(q, t, 0, 0, -1, 0, 0) - Max2(0, 10 - (Len(t) - Len(q)))

MaxPeerSteps == 2

\* the SearchService the palette of window w holds: registerWindow creates one
\* per window (part_003 37-38); in the variant below every window holds the first
OwnerOfService_Shared(w) == 1

OwnerOfService(w) == w

WindowsStore ==
  [ l \in Libraries |->
      IF l = 1 THEN << Item(1, "regular", 0, 1, << "p" >>),
                       Item(2, "regular", 0, 1, << "q" >>) >>
      ELSE << >> ]

\* the records of library 1 after the change made to them
WindowsRecords == << Item(1, "regular", 0, 1, << "p" >>) >>

WindowsQuery == << "p" >>

InitWindows ==
  /\ HostInit(WindowsStore)
  /\ ServiceInit
  /\ CommandInit
  /\ PaletteInit

\* registerWindow(win2) (part_003 30-60)
RegisterPeer ==
  /\ ~peer.registered
  /\ peer' = [ NoPeer EXCEPT !.registered = TRUE,
                             !.build = << NewBuild(0, << >>, << >>, 0) >> ]
  /\ UNCHANGED << hostVars, svcVars, openVars, lastCall, wm, cmdVars, palVars >>

\* getAll of the next library resolves for the warmIndex call of the second
\* window; after the last library ensureIndex assigns (search.ts 146-149)
PeerBuildStep ==
  /\ peer.build # << >>
  /\ ~FirstPassThrows(store[peer.build[1].nextLib])
  /\ LET done == BuildLibrary(peer.build[1])
     IN  peer' = IF peer.build[1].nextLib < NumLibs
                 THEN [ peer EXCEPT !.build = << done >> ]
                 ELSE [ peer EXCEPT !.build = << >>,
                                    !.index = done.entries,
                                    !.indexReady = TRUE,
                                    !.indexStale = FALSE,
                                    !.lastIndexedAt = done.nowAt ]
  /\ UNCHANGED << hostVars, svcVars, openVars, lastCall, wm, cmdVars, palVars >>

\* recordOpen(itemID) (search.ts 123-131) called by the palette of the second window
PeerRecordOpen(itemID) ==
  /\ peer.registered /\ peer.steps < MaxPeerSteps
  /\ IF OwnerOfService(2) = 2
     THEN /\ peer' = [ peer EXCEPT !.usageCounts = Increment(@, itemID),
                                   !.recentItemIDs = RecordOpenQueue(@, itemID),
                                   !.steps = @ + 1 ]
          /\ UNCHANGED openVars
     ELSE /\ peer' = [ peer EXCEPT !.steps = @ + 1 ]
          /\ usageCounts' = Increment(usageCounts, itemID)
          /\ recentItemIDs' = RecordOpenQueue(recentItemIDs, itemID)
          /\ UNCHANGED << openCalls, lastOpenCall, openSteps >>
  /\ UNCHANGED << hostVars, svcVars, lastCall, wm, cmdVars, palVars >>

\* run(commandId, win2) (search.ts 1218-1239) of the registry of the second
\* window, from the call to the settlement of the action; the command is
\* taken to be available in that window
PeerRun(commandId, threw) ==
  /\ peer.registered /\ peer.steps < MaxPeerSteps
  /\ peer' = [ peer EXCEPT !.cmdUsage = RunUsage(@, commandId, threw),
                           !.steps = @ + 1 ]
  /\ UNCHANGED << hostVars, svcVars, openVars, lastCall, wm, cmdVars, palVars >>

\* pushRecentSearch(query) (palette.ts 1080-1090) of the palette of the second
\* window, after a result of a search was activated there
PeerPushRecentSearch(query) ==
  /\ peer.registered /\ peer.steps < MaxPeerSteps
  /\ peer' = [ peer EXCEPT !.recentSearches = pushRecentSearch(@, query, "search"),
                           !.steps = @ + 1 ]
  /\ UNCHANGED << hostVars, svcVars, openVars, lastCall, wm, cmdVars, palVars >>

NextWindows ==
  \/ RegisterWindow
  \/ RegisterPeer
  \/ \E b \in builds : BuildNextLibrary(b)
  \/ \E b \in builds : BuildFinish(b)
  \/ PeerBuildStep
  \/ Show
  \/ TypeInput(WindowsQuery)
  \/ ActivateSelection("default")
  \/ \E o \in opening : OpenResolved(o)
  \/ RunCommand("new-note")
  \/ \E r \in cmdRuns : RunFinish(r, FALSE)
  \/ ItemChange(1, WindowsRecords)
  \/ PeerRecordOpen(2)
  \/ PeerRun("new-note", FALSE)
  \/ PeerPushRecentSearch(<< "q" >>)

SpecWindows == InitWindows /\ [][NextWindows]_vars

\* the session state of the instances of each window
SessionOfFirst ==
  << usageCounts, recentItemIDs, cmdUsage, recentSearches, index, indexReady,
     indexStale >>

SessionOfPeer ==
  << peer.usageCounts, peer.recentItemIDs, peer.cmdUsage, peer.recentSearches,
     peer.index, peer.indexReady, peer.indexStale >>

\* C21: an operation made through the second window leaves the usage counts,
\* recency queue, command usage, search history, index and staleness flag of
\* the first window as they are, and an operation made through the first
\* window, or a step of its builds, leaves those of the second as they are; a
\* change of the document store is notified to the service of each window,
\* which marks its own index stale and nothing else.
C21_SessionStatePerWindow ==
  [][/\ (peer.steps' # peer.steps \/ peer.build' # peer.build
           \/ peer.registered' # peer.registered)
        => SessionOfFirst' = SessionOfFirst
     /\ (SessionOfFirst' # SessionOfFirst /\ store' = store)
        => SessionOfPeer' = SessionOfPeer
     /\ store' # store
        => /\ SessionOfFirst' = [ SessionOfFirst EXCEPT ![7] = TRUE ]
           /\ SessionOfPeer' = [ SessionOfPeer EXCEPT ![7] = peer.registered \/ @ ]]_vars

\* both windows have an index; paper 1 was opened through the first window
\* and paper 2 twice through the second; the first window holds the search
\* "p" in its history and has run a command, the second holds neither
C21_WindowsDiverged ==
  /\ indexReady /\ peer.indexReady
  /\ UsageOf(usageCounts, 1) = 1 /\ UsageOf(usageCounts, 2) = 0
  /\ UsageOf(peer.usageCounts, 2) = 2 /\ UsageOf(peer.usageCounts, 1) = 0
  /\ recentItemIDs = << 1 >> /\ peer.recentItemIDs = << 2 >>
  /\ recentSearches = << WindowsQuery >> /\ peer.recentSearches = << >>
  /\ UsageOf(cmdUsage, "new-note") = 1 /\ peer.cmdUsage = << >>

(***************************************************************************)
(* Specification of the search history: the palette after n searches whose *)
(* result was activated, n below and at the capacity of the history; more  *)
(* searches are entered and activated, history rows are deleted            *)
(***************************************************************************)
HistoryCap == 20

RECURSIVE BuildAll(_)
BuildAll(b) == IF b.nextLib > NumLibs THEN b ELSE BuildAll(BuildLibrary(b))

\* one paper whose title holds the numbers 1 to 20, the queries of the history
HistoryStore ==
  [ l \in Libraries |->
      IF l = 1
      THEN << Item(1, "regular", 0, 1,
                   << "1", "2", "3", "4", "5", "6", "7", "8", "9", "1", "0", "1", "1", "1", "2", "1", "3", "1", "4", "1", "5", "1", "6", "1", "7", "1", "8", "1", "9", "2", "0" >>) >>
      ELSE << >> ]

\* the queries entered: the oldest of a full history, a new one, and one of
\* the history with blanks around it
HistoryQueries == { StringOfNat(HistoryCap), StringOfNat(HistoryCap + 1), << " ", "3", " " >> }

\* the window after the searches "n", ..., "1" were entered in turn and the
\* paper was revealed from the results of each: the index is built, the
\* palette is hidden; searchToken is counted from here, and the fields the
\* next show overwrites are left as the constructor set them
HistoryAfter(n) ==
  /\ HostInit(HistoryStore)
  /\ index = BuildAll(NewBuild(0, << >>, << >>, 0)).entries
  /\ indexReady = TRUE /\ indexStale = FALSE /\ lastIndexedAt = 0
  /\ indexVer = [ l \in Libraries |-> 0 ]
  /\ builds = {} /\ warmed = TRUE
  /\ usageCounts = << >> /\ recentItemIDs = << >> /\ openCalls = << >>
  /\ lastOpenCall = 0 /\ openSteps = 0
  /\ lastCall = NoCall /\ peer = NoPeer /\ wm = NoManager
  /\ CommandInit
  /\ searchToken = 0 /\ results = << >> /\ displayMode = "recent"
  /\ currentQuery = << >> /\ selectedIndex = 0 /\ open = FALSE
  /\ inputValue = << >>
  /\ recentSearches = [ i \in 1 .. n |-> StringOfNat(i) ]
  /\ recentActivatedItemIDs = IF n = 0 THEN << >> ELSE << 1 >>
  /\ recentClosedAttachmentIDs = << >> /\ lastOpenReaderIDs = << >>
  /\ opening = {} /\ shownToken = 0 /\ shownQuery = << >>
  /\ lastQuery = << >> /\ discardedToken = 0

InitHistory == \E n \in { 0, 2, HistoryCap - 1, HistoryCap } : HistoryAfter(n)

NextHistory ==
  \/ Show
  \/ \E q \in HistoryQueries : TypeInput(q)
  \/ \E delta \in { -1, 1 } : MoveSelection(delta)
  \/ \E intent \in { "default", "reveal" } : ActivateSelection(intent)
  \/ \E o \in opening : OpenResolved(o)
  \/ \E i \in DOMAIN results :
       results[i].kind = "history" /\ DeleteHistory(results[i].query)

SpecHistory == InitHistory /\ [][NextHistory]_vars

\* the step is the end of an activation that pushes query q
Pushed(q) ==
  /\ opening' # opening /\ Cardinality(opening') < Cardinality(opening)
  /\ open /\ ~open'
  /\ displayMode = "search"
  /\ q = Trim(currentQuery) /\ q # << >>

\* C22: the search history holds at most 20 queries, not the empty one and
\* none twice; the query of an activated result comes to the front, the
\* history growing by one when the query is new and there is room, and
\* keeping its length when the query was in it or the history was full.
C22_HistoryBoundedDeduplicated ==
  /\ [](/\ Len(recentSearches) <= 20
        /\ << >> \notin Range(recentSearches)
        /\ NoDup(recentSearches))
  /\ [][\A q \in { Trim(x) : x \in HistoryQueries } :
          Pushed(q) =>
            /\ recentSearches'[1] = q
            /\ Range(recentSearches') \subseteq Range(recentSearches) \cup { q }
            /\ Len(recentSearches') =
                 IF q \in Range(recentSearches) THEN Len(recentSearches)
                 ELSE IF Len(recentSearches) < 20 THEN Len(recentSearches) + 1
                 ELSE 20]_vars

\* of a full history the row "2" was deleted and the oldest query, "20", was
\* entered again and its result activated: it stands in front of "1", once
C22_DeletedThenReentered ==
  /\ Len(recentSearches) = HistoryCap - 1
  /\ recentSearches[1] = StringOfNat(HistoryCap)
  /\ recentSearches[2] = StringOfNat(1)
  /\ StringOfNat(2) \notin Range(recentSearches)
  /\ ~open

(***************************************************************************)
(* The accumulation of the walk as described: 1 for each matched           *)
(* character, and 5 + the length of the run so far on top of it for a      *)
(* character matched right after the previous match                        *)
(***************************************************************************)
\* prev is the 0-based position of the previous match, -1 when there is none;
\* run is the number of matches of the current run before this one
RECURSIVE DescribedWalk(_, _, _, _, _, _, _)
DescribedWalk(q, t, i, tIndex, prev, run, score) ==
  IF i >= Len(q) THEN score
  ELSE LET pos == ScanFor(t, q[i + 1], tIndex)
           adjacent == prev >= 0 /\ pos = prev + 1
       IN  IF pos >= Len(t) THEN -1
           ELSE DescribedWalk(q, t, i + 1, pos + 1, pos,
                              IF adjacent THEN run + 1 ELSE 0,
                              score + 1 + (IF adjacent THEN 5 + run ELSE 0)
                                + (IF pos = 0 \/ t[pos] \in BoundaryChars THEN 3 ELSE 0))

\* C23: the score of a successful match is made of 1 for every matched
\* character, 5 + the run length on top of it for a character matched
\* immediately after the previous match, the run length falling back to 0 on
\* a gap, the boundary bonus, the substring bonus and the length closeness.
C23_BaselinePlusRunBonus ==
  (lastCall.fn = "fuzzyScore" /\ lastCall.result # -1) =>
    LET q == normalize(lastCall.args[1])
        t == normalize(lastCall.args[2])
    IN  lastCall.result = DescribedWalk(q, t, 0, 0, -1, 0, 0)
                            + (IF IsSubstring(q, t) THEN 8 ELSE 0)
                            + Max2(0, 10 - (Len(t) - Len(q)))

(***************************************************************************)
(* Specification of an activation among keystrokes: two papers, the inputs *)
(* "p" and "pq", a change notification that makes the next search wait for *)
(* a rebuild                                                               *)
(***************************************************************************)
PendingStore ==
  [ l \in Libraries |->
      IF l = 1 THEN << Item(1, "regular", 0, 1, << "p", "a" >>),
                       Item(2, "regular", 0, 1, << "p", "q", "a" >>) >>
      ELSE << >> ]

\* the records of library 1 after the change made to them: both are retitled
PendingRecords ==
  << Item(1, "regular", 0, 1, << "p", "b" >>),
     Item(2, "regular", 0, 1, << "p", "q", "b" >>) >>

PendingQueries == { << "p" >>, << "p", "q" >> }

InitPending ==
  /\ HostInit(PendingStore)
  /\ ServiceInit
  /\ CommandInit
  /\ PaletteInit

NextPending ==
  \/ RegisterWindow
  \/ \E b \in builds : BuildNextLibrary(b)
  \/ \E b \in builds : BuildFinish(b)
  \/ Show
  \/ \E q \in PendingQueries : TypeInput(q)
  \/ ActivateSelectionFrom("default", shownQuery)
  \/ \E o \in opening : OpenResolved(o)
  \/ ItemChange(1, PendingRecords)

SpecPending == InitPending /\ [][NextPending]_vars

\* C24: whenever the end of an activation pushes a query into recentSearches,
\* that query is the input whose search filled the result list the activated
\* result was taken from (noted in `from` when Enter was pressed)
C24_HistoryMatchesDisplayed ==
  [][ \A o \in opening :
        (o \notin opening' /\ recentSearches' # recentSearches)
          => recentSearches'[1] = Trim(o.from) ]_vars

\* what buildIndex returns when every library is read in the state `st` of the
\* document store
GenerationOf(st) ==
  LET RECURSIVE Pass(_, _)
      Pass(l, pwa) ==
        IF l > NumLibs THEN << >>
        ELSE LET next == FirstPass(st[l], pwa)
             IN  SecondPass(st, st[l], next) \o Pass(l + 1, next)
  IN  Pass(1, {})

\* the index generations of the runs: the store before and after the change
PendingGenerations ==
  { GenerationOf(PendingStore),
    GenerationOf([ PendingStore EXCEPT ![1] = PendingRecords ]) }

FromGeneration(res, g) ==
  \A i \in DOMAIN res :
     \E j \in DOMAIN g : res[i] = ResultOfEntry(g[j], res[i].score)

\* C25: the index is always one whole generation (or still empty), and every
\* displayed list of search results is made of entries of one generation
C25_OneGenerationPerSearch ==
  /\ index = << >> \/ index \in PendingGenerations
  /\ displayMode = "search"
       => \E g \in PendingGenerations : FromGeneration(results, g)

\* a search that waited for a rebuild shows both papers in their new version
\* while an older rebuild is still in flight
C25_NewGenerationShown ==
  /\ displayMode = "search" /\ Len(results) = 2
  /\ FromGeneration(results, GenerationOf([ PendingStore EXCEPT ![1] = PendingRecords ]))
  /\ \E b \in builds : b.nextLib = 2 /\ b.entries = GenerationOf(PendingStore)

\* C26: a call of run() for a registered command whose availability predicate
\* does not return enabled in the run context of that moment starts no
\* action, gives false and leaves the usage counts as they were, whether or
\* not an earlier search returned the command
C26_RunRechecksAvailability ==
  [][ \A commandId \in CommandIds :
        ( /\ cmdCalls' = cmdCalls + 1
          /\ \/ lastRun' # lastRun /\ lastRun'.commandId = commandId
             \/ \E r \in cmdRuns' \ cmdRuns : r.commandId = commandId
          /\ ~isAvailable(store, commandId,
                          getRunContext(store, pane, selectedTab, win)) )
        => /\ cmdRuns' = cmdRuns
           /\ lastRun'.commandId = commandId
           /\ lastRun'.outcome = "false"
           /\ ~lastRun'.completed
           /\ cmdUsage' = cmdUsage ]_vars

\* the palette still displays New Note from a search made while the library
\* was editable; the library is read-only now, run() has answered false for
\* New Note and its count is still zero
C26_DisplayedCommandRefused ==
  /\ open /\ displayMode = "command"
  /\ \E i \in DOMAIN results : results[i].commandId = "new-note"
  /\ ~isAvailable(store, "new-note", getRunContext(store, pane, selectedTab, win))
  /\ lastRun.commandId = "new-note" /\ lastRun.outcome = "false" /\ ~lastRun.threw
  /\ cmdRuns = {}
  /\ UsageOf(cmdUsage, "new-note") = 0

(***************************************************************************)
(* Specification of failing rebuilds: the document store may reject any    *)
(* getAll; one window, one input, one change notification                  *)
(***************************************************************************)
\* indexStale after ensureIndex has rejected: its assignments sit after the
\* await (search.ts 146-149); with a variant that clears the flag before it
StaleAfterReject_Cleared(stale) == FALSE

StaleAfterReject(stale) == stale

\* getAll of the next library rejects: buildIndex, ensureIndex and search (or
\* warmIndex) reject in turn (search.ts 89, 134, 146, 191); lastCall records
\* the buildIndex call that failed, by the token of its updateResults call
BuildReject(b) ==
  /\ b \in builds
  /\ builds' = builds \ { b }
  /\ indexStale' = StaleAfterReject(indexStale)
  /\ lastCall' = [ fn |-> "buildIndex", args |-> << b.token >>, result |-> 0 ]
  /\ UNCHANGED << hostVars, index, indexReady, lastIndexedAt, indexVer, warmed,
                  openVars, peer, wm, cmdVars, palVars >>

NextReject ==
  \/ RegisterWindow
  \/ Show
  \/ TypeInput(GateQuery)
  \/ \E b \in builds : BuildNextLibrary(b)
  \/ \E b \in builds : BuildFinish(b)
  \/ \E b \in builds : BuildReject(b)
  \/ ItemChange(1, GateRecords)

SpecReject == InitLifecycle /\ [][NextReject]_vars

\* the step is the failure of a buildIndex call
BuildFailed ==
  /\ lastCall'.fn = "buildIndex"
  /\ lastCall.fn # "buildIndex" \/ lastCall.args # lastCall'.args

\* the step is a search() call made by updateResults
SearchBegun ==
  /\ searchToken' = searchToken + 1
  /\ ~parseQuery(lastQuery').isCommandMode
  /\ parseQuery(lastQuery').query # << >>

\* C27: a failing buildIndex leaves index, indexReady, indexStale and
\* lastIndexedAt as they are, and a search() called while the index is not
\* fresh starts a rebuild of its own, also after any number of failures
C27_FailedBuildKeepsIndex ==
  [][ /\ BuildFailed => UNCHANGED << index, indexReady, indexStale, lastIndexedAt >>
      /\ ( /\ SearchBegun
           /\ lastCall.fn = "buildIndex"
           /\ ~IndexFresh(indexReady, indexStale, lastIndexedAt, now) )
        => \E b \in builds' \ builds : b.token = searchToken' ]_vars

\* the index was built and then made stale by a change; the rebuild of the
\* search typed next failed; the previous generation is kept, still marked
\* stale, and a second search is rebuilding
C27_RetriedAfterFailure ==
  /\ lastCall.fn = "buildIndex" /\ lastCall.args = << 2 >>
  /\ indexReady /\ indexStale
  /\ index = GenerationOf(InitialLifecycleStore)
  /\ store # InitialLifecycleStore
  /\ \E b \in builds : b.token = 3

\* C28: in every index generation each regular item (one whose own record
\* raises no exception) has an entry of its own or an entry of one of its
\* searchable attachments
C28_PaperReachable ==
  (indexReady /\ builds = {}) =>
    \A r \in { it \in AllItems(store) : it.kind = "regular" /\ it.throwsAt = "none" } :
      \/ EntryCount(index, { r.id }) >= 1
      \/ EntryCount(index, { a.id : a \in SearchableAttachmentsOf(store, r) }) >= 1

\* the rows of a displayed list that stand for a record
RecordRows(res) == { i \in DOMAIN res : res[i].kind # "history" }

\* C29: a recent view never lists the same item id twice and never lists the
\* item of the active tab
C29_RecentViewDistinct ==
  [][ (displayMode' = "recent" /\ shownToken' # shownToken) =>
        /\ \A i, j \in RecordRows(results') :
             i # j => results'[i].id # results'[j].id
        /\ \A i \in RecordRows(results') :
             selectedTab = 0 \/ results'[i].id # selectedTab ]_vars

(***************************************************************************)
(* Specification of tagged records: a paper, its PDF and a standalone     *)
(* note, each with up to two raw tags                                      *)
(***************************************************************************)
RawTags == { << "M", "L" >>, << "m", "l", " " >>, << "a", "i" >> }

TagLists ==
  { << >> } \cup { << t >> : t \in RawTags } \cup { << t, u >> : t, u \in RawTags }

Tagged(item, tags) == [ item EXCEPT !.tags = tags ]

TagStores ==
  { [ l \in Libraries |->
        IF l = 1
        THEN << Tagged(Item(1, "regular", 0, 1, << "p" >>), paperTags),
                Tagged(Attachment(2, 1, 1,
                                  [ linkMode |-> "file",
                                    contentType |-> "application/pdf",
                                    isPDF |-> TRUE ], "none"), pdfTags),
                Tagged(Item(3, "note", 0, 1, << "n" >>), noteTags),
                Tagged(Item(4, "regular", 0, 1, << "q" >>), noteTags) >>
        ELSE << >> ] :
      paperTags \in TagLists, pdfTags \in TagLists, noteTags \in TagLists }

InitTags ==
  /\ \E st \in TagStores : HostInit(st)
  /\ ServiceInit
  /\ CommandInit
  /\ PaletteInit

NextTags ==
  \/ RegisterWindow
  \/ \E b \in builds : BuildNextLibrary(b)
  \/ \E b \in builds : BuildFinish(b)

SpecTags == InitTags /\ [][NextTags]_vars

\* a tag as the index is said to keep it: no capital letter, no blank at
\* either end, no run of blanks, not empty
NormalizedTag(tag) ==
  /\ tag # << >>
  /\ \A i \in DOMAIN tag : tag[i] \notin { "M", "L", "A", "I" }
  /\ tag[1] # " " /\ tag[Len(tag)] # " "
  /\ \A i \in DOMAIN tag : i > 1 => ~(tag[i] = " " /\ tag[i - 1] = " ")

\* C30: the tags of every entry of the index are normalized and pairwise
\* distinct, for items, notes and attachments
C30_TagsNormalizedDistinct ==
  \A i \in DOMAIN index :
     LET tags == index[i].tags
     IN  /\ \A k \in DOMAIN tags : NormalizedTag(tags[k])
         /\ \A k, m \in DOMAIN tags : k # m => tags[k] # tags[m]

(***************************************************************************)
(* Properties of the year comparisons, checked under SpecParse             *)
(***************************************************************************)
\* C31: year:>YYYY and year:>=YYYY both give the lower bound YYYY, year:<YYYY
\* and year:<=YYYY both give the upper bound YYYY, and a search with any of
\* the four returns the entry dated YYYY
C31_ComparisonsInclusive ==
  \A c \in BoundCases :
    /\ Parsed(c.query) =>
         /\ lastCall.result.filters.yearMin = c.min
         /\ lastCall.result.filters.yearMax = c.max
         /\ lastCall.result.textQuery = << >>
    /\ Searched(c.query) => (IdsOf(lastCall.result) = c.ids /\ 2 \in c.ids)

\* search("year:>2020") returned the paper dated 2020 and left out the one
\* dated 2019
C31_EqualYearPassesGreater ==
  /\ Searched(<< "y", "e", "a", "r", ":", ">", "2", "0", "2", "0" >>)
  /\ \E r \in Range(lastCall.result) : r.id = 2 /\ r.year = 2020
  /\ 1 \notin IdsOf(lastCall.result)

(***************************************************************************)
(* Specification of searches made of filters alone: four papers of two     *)
(* libraries, opened in any order before the call                          *)
(***************************************************************************)
FilterStore ==
  [ l \in Libraries |->
      IF l = 1
      THEN << Paper(1, << "a" >>, << << "x" >> >>, << "2", "0", "2", "0" >>),
              Paper(2, << "b", "b", "b" >>, << >>, << "2", "0", "1", "9" >>) >>
      ELSE IF l = 2
      THEN << [ Paper(3, << "c", "c" >>, << << "x" >> >>, << "2", "0", "2", "0" >>)
                  EXCEPT !.libraryID = 2 ],
              [ Paper(4, << "d" >>, << >>, << "2", "0", "2", "1" >>)
                  EXCEPT !.libraryID = 2 ] >>
      ELSE << >> ]

\* queries without free text, and the papers that pass their filters
FilterCases ==
  {
    [ query |-> << "t", "y", "p", "e", ":", "i", "t", "e", "m" >>, ids |-> { 1, 2, 3, 4 } ],
    [ query |-> << "y", "e", "a", "r", ":", "2", "0", "2", "0" >>, ids |-> { 1, 3 } ],
    [ query |-> << "t", "a", "g", ":", "x", " ", "y", "e", "a", "r", ":", ">", "2", "0", "1", "9" >>,
      ids |-> { 1, 3 } ],
    [ query |-> << "y", "e", "a", "r", ":", "<", "2", "0", "2", "0", " ", "t", "y", "p", "e", ":", "i", "t", "e", "m" >>,
      ids |-> { 1, 2, 3 } ]
  }

FilterIds == { 1, 2, 3, 4 }

InitFilters ==
  /\ HostInit(FilterStore)
  /\ ServiceInit
  /\ CommandInit
  /\ PaletteInit

NextFilters ==
  \/ RegisterWindow
  \/ \E b \in builds : BuildNextLibrary(b)
  \/ \E b \in builds : BuildFinish(b)
  \/ \E itemID \in FilterIds : RecordOpen(itemID)
  \/ /\ lastCall.fn = "none"
     /\ \E c \in FilterCases : CallSearch(c.query, ParseLimit)

SpecFilters == InitFilters /\ [][NextFilters]_vars

\* the three boosts of record id at the time of a search; the papers of
\* library 1, the active one, are 1 and 2
BoostsOf(id) ==
  UsageOf(usageCounts, id) * 3
  + getRecencyBoost(recentItemIDs, id)
  + (IF id \in { 1, 2 } THEN 6 ELSE 0)

\* C32: a search without free text returns every entry that passes the
\* filters, each with the score 10 plus its boosts, ordered by the boosts,
\* entries of equal boosts in index order
C32_FiltersOnlyFlatScore ==
  [][ \A c \in FilterCases :
        (lastCall.fn = "none" /\ lastCall'.fn = "search"
           /\ lastCall'.args = << c.query, ParseLimit >>) =>
          LET res == lastCall'.result
          IN  /\ IdsOf(res) = c.ids
              /\ Len(res) = Cardinality(c.ids)
              /\ \A k \in DOMAIN res : res[k].score - BoostsOf(res[k].id) = 10
              /\ \A k, l \in DOMAIN res :
                   k < l => \/ BoostsOf(res[k].id) > BoostsOf(res[l].id)
                            \/ /\ BoostsOf(res[k].id) = BoostsOf(res[l].id)
                               /\ res[k].id < res[l].id ]_vars

\* search("type:item") after paper 4 was opened three times: paper 4, of the
\* other library, comes first, and papers 1 and 2 come before paper 3
C32_BoostsDecideOrder ==
  /\ Searched(<< "t", "y", "p", "e", ":", "i", "t", "e", "m" >>)
  /\ UsageOf(usageCounts, 4) = 3
  /\ [ k \in DOMAIN lastCall.result |-> lastCall.result[k].id ] = << 4, 1, 2, 3 >>

(***************************************************************************)
(* Specification of the boosts among the other operations: the store of   *)
(* SpecPending, one input, recordOpen also called by other callers         *)
(***************************************************************************)
BoostIds == { 1, 2 }

NextBoost ==
  \/ RegisterWindow
  \/ \E b \in builds : BuildNextLibrary(b)
  \/ \E b \in builds : BuildFinish(b)
  \/ Show
  \/ TypeInput(<< "p" >>)
  \/ ActivateSelection("default")
  \/ \E o \in opening : OpenResolved(o)
  \/ ItemChange(1, PendingRecords)
  \/ \E itemID \in BoostIds : RecordOpen(itemID)

SpecBoost == InitPending /\ [][NextBoost]_vars

\* the number of recordOpen(id) calls made so far
OpenCallsOf(id) == UsageOf(openCalls, id)

\* the score search gives an entry of base score `base` with these counts and
\* this queue (search.ts 102-112)
BoostedScore(base, entry, usage, recent) ==
  base + UsageOf(usage, entry.id) * 3 + getRecencyBoost(recent, entry.id)
  + (IF activeLibraryID # 0 /\ activeLibraryID = entry.libraryID THEN 6 ELSE 0)

\* C33: while the index stays the same, a recordOpen(x) call raises the score
\* of entry x for every query it matches, and a step that is not a recordOpen
\* call for another id lowers the score of no entry
C33_OpenRaisesScore ==
  [][ index' = index =>
        \A i \in DOMAIN index : \A text \in PendingQueries :
          LET x == index[i].id
              base == fuzzyScore(text, index[i].searchText)
              before == BoostedScore(base, index[i], usageCounts, recentItemIDs)
              after == BoostedScore(base, index[i], usageCounts', recentItemIDs')
          IN  base > 0 =>
                /\ OpenCallsOf(x)' > OpenCallsOf(x) => after > before
                /\ (\A y \in BoostIds \ { x } : OpenCallsOf(y)' = OpenCallsOf(y))
                     => after >= before ]_vars

\* paper 1 was opened, then paper 2, then paper 1 again: it is back at the
\* front of the queue with a count of two
C33_ReopenedAfterAnother ==
  /\ indexReady
  /\ recentItemIDs = << 1, 2 >>
  /\ UsageOf(usageCounts, 1) = 2 /\ UsageOf(usageCounts, 2) = 1

(***************************************************************************)
(* Specification of direct calls of getRecencyBoost: the queue is empty,   *)
(* nearly full or full at first, and recordOpen goes on being called       *)
(***************************************************************************)
\* the ids getRecencyBoost is called with: the first ten of the queue, the
\* ids around the cap, and 0
RecencyIds == 0 .. 10 \cup { RecentCap, RecentCap + 1 }

\* getRecencyBoost(itemID) (search.ts 164-170)
CallGetRecencyBoost(itemID) ==
  /\ lastCall' = [ fn |-> "getRecencyBoost", args |-> << itemID >>,
                   result |-> getRecencyBoost(recentItemIDs, itemID) ]
  /\ UNCHANGED << hostVars, svcVars, openVars, peer, wm, cmdVars, palVars >>

NextRecency ==
  \/ \E itemID \in OpenIds : RecordOpen(itemID)
  \/ /\ lastCall.fn = "none"
     /\ \E itemID \in RecencyIds : CallGetRecencyBoost(itemID)

SpecRecency == InitOpen /\ [][NextRecency]_vars

\* the boost of each of the first eight places of the queue, newest first
RecencyTable == << 8, 7, 6, 5, 4, 3, 2, 1 >>

\* the places (from 1) of id in the queue
PlacesOf(id) == { p \in DOMAIN recentItemIDs : recentItemIDs[p] = id }

\* C34: the boost of an id is the table's value for its place among the first
\* eight of the queue, larger than the boost of every id behind it, and zero
\* for an id further back or not in the queue; it is never negative
C34_RecencyBoostDecreasing ==
  [][ \A id \in RecencyIds :
        (lastCall.fn = "none" /\ lastCall'.fn = "getRecencyBoost"
           /\ lastCall'.args = << id >>) =>
          LET boost == lastCall'.result
          IN  /\ boost >= 0
              /\ PlacesOf(id) = {} => boost = 0
              /\ \A p \in PlacesOf(id) :
                   /\ p <= 8 => boost = RecencyTable[p]
                   /\ p > 8 => boost = 0
                   /\ \A q \in DOMAIN recentItemIDs :
                        (p < q /\ p <= 8) =>
                          boost > getRecencyBoost(recentItemIDs, recentItemIDs[q]) ]_vars

\* getRecencyBoost was called for the id at the ninth place of a full queue
\* and gave zero
C34_NinthPlaceZero ==
  /\ lastCall.fn = "getRecencyBoost"
  /\ Len(recentItemIDs) = RecentCap
  /\ recentItemIDs[9] = lastCall.args[1]
  /\ lastCall.result = 0

(***************************************************************************)
(* Specification of the palette with a host that always answers: every     *)
(* getAll that is awaited resolves in the end                              *)
(***************************************************************************)
LiveQueries == { << "a" >>, << "b" >> }

NextLive ==
  \/ RegisterWindow
  \/ Show
  \/ \E q \in LiveQueries : TypeInput(q)
  \/ \E b \in builds : BuildNextLibrary(b)
  \/ \E b \in builds : BuildFinish(b)
  \/ ItemChange(1, GateRecords)

\* a getAll awaited by some buildIndex call resolves (search.ts 191): the call
\* leaves the set of the calls in flight (BuildFinish) or moves on to its next
\* library (BuildNextLibrary); possible exactly when a call is in flight
BuildProgress ==
  \E b \in builds :
    \/ builds' = builds \ { b }
    \/ builds' = (builds \ { b }) \cup { BuildLibrary(b) }

\* the host answers: while a getAll is awaited, one resolves in the end
SpecLive ==
  /\ InitLifecycle
  /\ [][NextLive]_vars
  /\ WF_builds(BuildProgress)

\* C35: the updateResults calls are finitely many, and from some moment on
\* the palette displays the list of the last call, which is the list of the
\* last input, and no search is left waiting
C35_LastQueryDisplayed ==
  <>[](shownToken = searchToken /\ shownQuery = lastQuery /\ builds = {})

\* the list of the last input is displayed after the search of an earlier
\* input, which waited for a rebuild, was discarded
C35_ShownAfterDiscard ==
  /\ displayMode = "search"
  /\ shownToken = searchToken /\ shownQuery = lastQuery
  /\ discardedToken > 0 /\ discardedToken < searchToken
  /\ builds = {}

\* ---------------------------------------------------------------------------
\* The WindowManager: start, shutdown, and the window events of the host
\* (part_003 13-139)

\* isWindowAlive(win): the window exists and is not closed
isWindowAlive(m, w) == m.window[w] \in { "loading", "complete" }

\* registerWindow(win) (part_003 30-60) for a supported window: a new
\* SearchService, whose constructor registers its observer (search.ts 72-74,
\* 152-160), a new PaletteUI, and the entries of both maps
registerWindow(m, w) ==
  IF ~isWindowAlive(m, w) \/ w \in m.palettes
  THEN m
  ELSE [ m EXCEPT !.palettes = @ \cup { w },
                  !.keyListeners = @ \cup { w },
                  !.observers = @ + 1 ]

\* unregisterWindow(win) (part_003 62-73): palette.destroy() calls
\* searchService.destroy() (palette.ts 109-114), which unregisters the
\* observer (search.ts 76-81)
unregisterWindow(m, w) ==
  [ m EXCEPT !.palettes = @ \ { w },
             !.keyListeners = @ \ { w },
             !.observers = IF w \in m.palettes THEN @ - 1 ELSE @ ]

\* registerExistingWindows (part_003 82-103): a complete window is registered,
\* a window still loading gets a once-only "load" listener
RECURSIVE registerExistingWindows(_, _)
registerExistingWindows(m, w) ==
  IF w > MaxWindows THEN m
  ELSE LET next ==
             IF ~isWindowAlive(m, w) THEN m
             ELSE IF m.window[w] = "complete" THEN registerWindow(m, w)
             ELSE [ m EXCEPT !.loadListeners = @ \cup { w } ]
       IN  registerExistingWindows(next, w + 1)

RECURSIVE unregisterAll(_, _)
unregisterAll(m, ws) ==
  IF ws = {} THEN m
  ELSE LET w == CHOOSE x \in ws : TRUE
       IN  unregisterAll(unregisterWindow(m, w), ws \ { w })

\* start() (part_003 18-21)
ManagerStart ==
  /\ ~wm.started
  /\ wm' = [ registerExistingWindows(wm, 1) EXCEPT !.listening = TRUE,
                                                   !.started = TRUE ]
  /\ UNCHANGED << hostVars, svcVars, openVars, lastCall, peer, cmdVars, palVars >>

\* shutdown() (part_003 23-28)
ManagerShutdown ==
  /\ wm.started /\ ~wm.down
  /\ wm' = [ unregisterAll(wm, wm.palettes) EXCEPT !.listening = FALSE,
                                                  !.down = TRUE ]
  /\ UNCHANGED << hostVars, svcVars, openVars, lastCall, peer, cmdVars, palVars >>

\* the host opens window w; onOpenWindow of a registered windowListener adds
\* the once-only "load" listener (part_003 109-120)
WindowOpens(w) ==
  /\ wm.window[w] = "absent"
  /\ wm' = [ wm EXCEPT !.window[w] = "loading",
                       !.loadListeners = IF wm.listening THEN @ \cup { w } ELSE @ ]
  /\ UNCHANGED << hostVars, svcVars, openVars, lastCall, peer, cmdVars, palVars >>

\* the "load" event of window w fires: a listener of the manager, if the
\* window carries one, calls registerWindow (part_003 93-99, 113-119)
WindowLoads(w) ==
  /\ wm.window[w] = "loading"
  /\ LET loaded == [ wm EXCEPT !.window[w] = "complete",
                               !.loadListeners = @ \ { w } ]
     IN  wm' = IF w \in wm.loadListeners THEN registerWindow(loaded, w) ELSE loaded
  /\ UNCHANGED << hostVars, svcVars, openVars, lastCall, peer, cmdVars, palVars >>

\* window w closes: its "unload" listener (part_003 51-57) and onCloseWindow
\* (part_003 121-126) call unregisterWindow
WindowCloses(w) ==
  /\ isWindowAlive(wm, w)
  /\ wm' = [ unregisterWindow(wm, w) EXCEPT !.window[w] = "closed",
                                           !.loadListeners = @ \ { w } ]
  /\ UNCHANGED << hostVars, svcVars, openVars, lastCall, peer, cmdVars, palVars >>

NextManager ==
  \/ ManagerStart
  \/ ManagerShutdown
  \/ \E w \in Windows : WindowOpens(w)
  \/ \E w \in Windows : WindowLoads(w)
  \/ \E w \in Windows : WindowCloses(w)

SpecManager == InitLifecycle /\ [][NextManager]_vars

\* C36: once shutdown() has returned, the palettes and keyListeners maps are
\* empty and no service created by the manager has an observer registered, and
\* this stays so whatever windows load afterwards
C36_NothingRegisteredAfterShutdown ==
  wm.down => /\ wm.palettes = {}
             /\ wm.keyListeners = {}
             /\ wm.observers = 0

\* the same right after shutdown() returns, which the code does establish
C36_EmptyWhenShutdownReturns ==
  [][ (~wm.down /\ wm'.down) =>
        (wm'.palettes = {} /\ wm'.keyListeners = {} /\ wm'.observers = 0) ]_vars

\* ---------------------------------------------------------------------------
\* Activation with each of the three intents: the papers and the PDF of
\* RecentStore, one query, results activated in any order, each activation
\* made after the one before it has resolved or rejected
Intents == { "default", "alternate", "reveal" }

NextIntent ==
  \/ RegisterWindow
  \/ \E b \in builds : BuildNextLibrary(b)
  \/ \E b \in builds : BuildFinish(b)
  \/ Show
  \/ TypeInput(<< "p" >>)
  \/ \E delta \in { -1, 1 } : MoveSelection(delta)
  \/ \E intent \in Intents : opening = {} /\ ActivateSelection(intent)
  \/ \E o \in opening : OpenResolved(o)
  \/ \E o \in opening : OpenRejected(o)

SpecIntent == InitRecent /\ [][NextIntent]_vars

\* the step in which the activation o ends changes nothing but the set of
\* suspended activations: openResult rejected, or it resolved without effect
EndsUnnoticed ==
  UNCHANGED << openVars, recentActivatedItemIDs, recentSearches, open, tabs,
               selectedTab, pane >>

\* C37: when an activation completes, its id is at the front of the
\* recently-activated list; with the reveal intent the usage counts, the
\* recent-open queue and the number of recordOpen calls are unchanged; with
\* the default or alternate intent recordOpen runs exactly once, for the
\* activated id
C37_RevealRecordsNoOpen ==
  [][ \A o \in opening :
        (o \notin opening' /\ ~EndsUnnoticed) =>
          /\ recentActivatedItemIDs' # << >>
          /\ recentActivatedItemIDs'[1] = o.id
          /\ o.intent = "reveal" =>
                UNCHANGED << usageCounts, recentItemIDs, openCalls, openSteps >>
          /\ o.intent # "reveal" =>
                /\ openSteps' = openSteps + 1
                /\ openCalls' = Increment(openCalls, o.id)
                /\ usageCounts' = Increment(usageCounts, o.id)
                /\ recentItemIDs'[1] = o.id ]_vars

\* two results were activated: the later one with the reveal intent, which
\* left no trace in the service, the earlier one as an open
C37_RevealedAfterOpened ==
  /\ Len(recentActivatedItemIDs) = 2
  /\ recentItemIDs = << recentActivatedItemIDs[2] >>
  /\ DOMAIN usageCounts = { recentActivatedItemIDs[2] }
  /\ openSteps = 1
  /\ opening = {}

\* ---------------------------------------------------------------------------
\* Rebuilds over records one of whose fields fails to load: paper 1 with its
\* child note 2, paper 4 with its PDF 3 (which stands for paper 4 in the
\* index and reads its metadata from it)
Str_2020 == << "2", "0", "2", "0" >>

FieldPaper(id, title) ==
  [ Item(id, "regular", 0, 1, title) EXCEPT
      !.displayTitle = << "d" >>, !.date = Str_2020,
      !.creators = << [ firstName |-> << "a" >>, lastName |-> << "b" >> ] >>,
      !.tags = << << "t" >> >>, !.abstractNote = << "x" >> ]

FieldRecords(title) ==
  << FieldPaper(1, title),
     [ Item(2, "note", 1, 1, << >>) EXCEPT !.note = << "n" >>,
                                           !.tags = << << "u" >> >> ],
     [ Attachment(3, 4, 1, [ linkMode |-> "file",
                             contentType |-> "application/pdf",
                             isPDF |-> TRUE ], "none")
         EXCEPT !.tags = << << "v" >> >> ],
     FieldPaper(4, << "q" >>) >>

\* the loads the rebuild makes: the record and the field
FieldLoads ==
  ({ 1, 4 } \X { "title", "displayTitle", "date", "creators", "tags", "abstractNote" })
    \cup { << 2, "note" >>, << 2, "tags" >>, << 3, "tags" >> }

Unloading(items, failing) ==
  [ i \in DOMAIN items |->
      [ items[i] EXCEPT !.unloaded = { f \in LoadedFields : << items[i].id, f >> \in failing } ] ]

FieldStores ==
  { [ l \in Libraries |->
        IF l = 1 THEN Unloading(FieldRecords(title), failing) ELSE << >> ] :
      title \in { << >>, << "p" >> },
      failing \in { {} } \cup { { load } : load \in FieldLoads } }

InitFields ==
  /\ \E st \in FieldStores : HostInit(st)
  /\ ServiceInit
  /\ CommandInit
  /\ PaletteInit

NextFields ==
  \/ RegisterWindow
  \/ \E b \in builds : BuildNextLibrary(b)
  \/ \E b \in builds : BuildFinish(b)

SpecFields == InitFields /\ [][NextFields]_vars

\* the record with every field that fails to load holding the empty value
Emptied(item) ==
  [ k \in DOMAIN item |->
      IF k \in item.unloaded THEN << >>
      ELSE IF k = "unloaded" THEN {}
      ELSE item[k] ]

EmptiedStore(st) ==
  [ l \in DOMAIN st |-> [ i \in DOMAIN st[l] |-> Emptied(st[l][i]) ] ]

\* the record with every field loaded
Loaded(item) == [ item EXCEPT !.unloaded = {} ]

\* the entries of the index for this id
EntriesFor(idx, id) == SelectSeq(idx, LAMBDA entry : entry.id = id)

ReaderStore ==
  [ l \in Libraries |->
      IF l = 1
      THEN << Item(1, "regular", 0, 1, << "p" >>) >> \o
           [ i \in 1 .. 3 |->
               Attachment(i + 1, 1, 1, [ linkMode |-> "file",
                                         contentType |-> "application/pdf",
                                         isPDF |-> TRUE ], "none") ]
      ELSE << >> ]

\* the three PDFs and an id the store does not hold
ReaderIds == { 2, 3, 4, 9 }

InitReader ==
  /\ HostInit(ReaderStore)
  /\ ServiceInit
  /\ CommandInit
  /\ PaletteInit

\* openAttachment(attachmentID, alternate) (search.ts 991-1023)
CallOpenAttachment(attachmentID, alternate, readerOpen, viewOpens) ==
  LET left == openAttachment(store, tabs, selectedTab, attachmentID, alternate,
                             readerOpen, viewOpens)
  IN  /\ tabs' = left.tabs
      /\ selectedTab' = left.selectedTab
      /\ lastCall' = [ fn |-> "openAttachment",
                       args |-> << attachmentID, alternate, readerOpen, viewOpens >>,
                       result |-> left ]
      /\ UNCHANGED << store, libVer, now, activeLibraryID, pane, win,
                      prefResultsLimit, svcVars, openVars, peer, wm, cmdVars, palVars >>

NextReader ==
  \/ \E attachmentID \in ReaderIds, alternate \in BOOLEAN,
        readerOpen \in { "opens", "throws" }, viewOpens \in BOOLEAN :
        CallOpenAttachment(attachmentID, alternate, readerOpen, viewOpens)
  \/ \E i \in DOMAIN tabs : CloseTab(i)

SpecReader == InitReader /\ [][NextReader]_vars

\* the readers of the attachment
ReadersOf(tbs, itemID) ==
  { i \in DOMAIN tbs : tbs[i].type \in { "reader", "window" } /\ tbs[i].itemID = itemID }

====
